---------------------------- MODULE Spec2Model ----------------------------
(***************************************************************************)
(* A model of the OpenGEX exporter for Blender (src/opengex_exporter.py).  *)
(*                                                                         *)
(* The module holds several state machines, one per component of the       *)
(* exporter, each with its own specification:                              *)
(*   SpecUnify  unify_vertices over a deindexed corner array               *)
(*   SpecCurve  ClassifyAnimationCurve / AnimationPresent over one curve   *)
(*   SpecNode   ExportNodeTransform over one node                          *)
(*   SpecSkin   the weight loop of ExportSkin                              *)
(* A specification leaves the variables of the other components at their   *)
(* idle values.                                                            *)
(*                                                                         *)
(* Floats are modelled by integers.  Lengths and animation values are      *)
(* counted in units of 1e-7, so that EPSILON (1e-6) is 10 units.           *)
(***************************************************************************)
EXTENDS Integers, Sequences, FiniteSets, TLC

VARIABLES
    \* ---- unify_vertices
    exportVertexArray,   \* the deindexed corner array handed to unify_vertices
    indexTable,          \* the caller's list, filled with unified indices (0-based)
    unifiedVertexArray,  \* the list under construction / returned
    hashTable,           \* bucket -> list of 0-based positions in exportVertexArray
    bucketCount,
    ui,                  \* the loop variable i of unify_vertices (0-based)
    upc,                 \* "idle" | "ready" | "loop" | "done"
    upass,               \* 1: first call, 2: the call on the previous call's result
    \* ---- animation curve classification
    fcurve,              \* the curve under test: a sequence of keyframes
    ckind,               \* result of ClassifyAnimationCurve
    presentKind,         \* the kind AnimationPresent was called with
    cpresent,            \* result of AnimationPresent(fcurve, presentKind)
    cpc,                 \* "idle" | "ready" | "classified" | "done"
    \* ---- ExportNodeTransform
    node,                \* the node being exported
    sampleAnimationFlag, \* the "Force Sampled Animation" option
    animCurve,           \* group -> axis -> position of the curve in the action, 0 for None
    animKind,            \* group -> axis -> kind of that curve
    animated,            \* group -> axis -> whether the channel is animated
    sampledAnimation,
    nk,                  \* how many curves of the action the loop has gone through
    npc,                 \* "idle" | "start" | "collect" | "write" | "sample" | "done"
    doc,                 \* the blocks written for the node, in document order
    frameCurrent,        \* scene.frame_current
    \* ---- ExportSkin
    skinVertexArray,     \* the exportVertexArray handed to ExportSkin
    boneCountArray,
    boneIndexArray,
    boneWeightArray,
    sk,                  \* how many vertices the weight loop has gone through
    spc,                 \* "idle" | "loop" | "done"
    \* ---- write_float and the array writers
    writeCall,           \* the call made: the function and its arguments
    option_float_as_hex,
    indentLevel,
    file,                \* the data of each self.file.write, in order
    wpc,                 \* "idle" | "call" | "returned" | "raised"
    \* ---- ExportGeometry: the index arrays
    materialTable,       \* the material index of each triangle
    geometryIndexTable,  \* the indexTable of unify_vertices, three entries a triangle
    maxMaterialIndex,
    gm,                  \* the material index the loop over range(maxMaterialIndex + 1) is at
    indexArrays,         \* the IndexArray structures written, in order
    gpc,                 \* "idle" | "start" | "loop" | "done"
    \* ---- execute
    scene,               \* the objects, the skeletons and the export options
    nodeArray,           \* self.nodeArray, in insertion order
    er,                  \* how many entries of scene.objects the running loop has passed
    buffer,              \* the parts of the document written to self.file
    opened,              \* how many times the output file was opened for writing
    disk,                \* what the output file holds
    result,              \* what execute gave its caller
    epc,                 \* the step execute is at
    \* ---- the sampled animation operations
    bake,                \* the operation that bakes and the subject it samples
    frame_start,         \* scene.frame_start
    frame_end,           \* scene.frame_end
    frame_current,       \* scene.frame_current
    frame_subframe,      \* scene.frame_subframe, in thousandths
    originalFrame,       \* the frame and subframe of the scene before the exports
    entryFrame,          \* currentFrame and currentSubframe of the running operation
    animationFlag,       \* animationFlag of the running operation
    bi,                  \* the loop variable i of the running loop
    baked,               \* the Time and Value keys written by the running operation
    bcount,              \* how many operations have run
    bpc,                 \* the step the running operation is at
    \* ---- deindex_mesh: the vertex colors
    mesh,                \* the mesh handed to deindex_mesh
    shouldExportVertexColor,\* the argument of that name
    colorArray,          \* the color of each ExportVertex of exportVertexArray, in order
    dface,               \* faceIndex of the loop over the color layer
    dpc,                 \* the step deindex_mesh is at
    \* ---- unify_vertices: the bucket count
    vertexCount,         \* len(exportVertexArray)
    vertexHash,          \* ev.hash of a vertex of the array
    roundCount,          \* bucketCount while it is computed
    routed,              \* the bucket the vertex is routed to
    kpc,                 \* the step the computation is at
    \* ---- WriteBuffer and Buffer
    bufferClass,         \* the class of the buffer: WriteBuffer or Buffer
    bytesio,             \* self.buffer, the bytes of the BytesIO
    bytesioPos,          \* the stream position of self.buffer
    writes,              \* the data of the write calls so far, in order
    fileData,            \* the bytes of the file write_to_file wrote last
    fpc,                 \* idle, open, flushed
    \* ---- export_bone_transform and ExportMorphWeights
    trackSubject,        \* the bone or the shape keys whose animation is written
    tdoc,                \* the structures written for it, in order
    ta,                  \* a, the place in curveArray of ExportMorphWeights
    tpc,                 \* idle, start, tracks, sample, done, raised
    \* ---- the indentation level across the export operations
    callStack,           \* the export operations in progress, the innermost last
    deepest,             \* the highest indentLevel reached so far
    ipc                  \* idle, run, flushed

unifyVars == <<exportVertexArray, indexTable, unifiedVertexArray, hashTable,
               bucketCount, ui, upc, upass>>
curveVars == <<fcurve, ckind, presentKind, cpresent, cpc>>
nodeVars == <<node, sampleAnimationFlag, animCurve, animKind, animated, sampledAnimation,
              nk, npc, doc, frameCurrent>>
skinVars == <<skinVertexArray, boneCountArray, boneIndexArray, boneWeightArray, sk, spc>>
writeVars == <<writeCall, option_float_as_hex, indentLevel, file, wpc>>
geometryVars == <<materialTable, geometryIndexTable, maxMaterialIndex, gm, indexArrays, gpc>>
executeVars == <<scene, nodeArray, er, buffer, opened, disk, result, epc>>
bakeVars == <<bake, frame_start, frame_end, frame_current, frame_subframe, originalFrame,
              entryFrame, animationFlag, bi, baked, bcount, bpc>>
deindexVars == <<mesh, shouldExportVertexColor, colorArray, dface, dpc>>
bucketVars == <<vertexCount, vertexHash, roundCount, routed, kpc>>
flushVars == <<bufferClass, bytesio, bytesioPos, writes, fileData, fpc>>
trackVars == <<trackSubject, tdoc, ta, tpc>>
indentVars == <<callStack, deepest, ipc>>
vars == <<unifyVars, curveVars, nodeVars, skinVars, writeVars, geometryVars, executeVars,
         bakeVars,
         deindexVars,
         bucketVars,
         flushVars,
         trackVars,
         indentVars>>

\* what the actions of one component leave alone
otherThanUnify == <<curveVars, nodeVars, skinVars, writeVars, geometryVars, executeVars,
    bakeVars,
    deindexVars,
    bucketVars,
    flushVars,
    trackVars,
    indentVars>>
otherThanCurve == <<unifyVars, nodeVars, skinVars, writeVars, geometryVars, executeVars,
    bakeVars,
    deindexVars,
    bucketVars,
    flushVars,
    trackVars,
    indentVars>>
otherThanNode == <<unifyVars, curveVars, skinVars, writeVars, geometryVars, executeVars,
    bakeVars,
    deindexVars,
    bucketVars,
    flushVars,
    trackVars,
    indentVars>>
otherThanSkin == <<unifyVars, curveVars, nodeVars, writeVars, geometryVars, executeVars,
    bakeVars,
    deindexVars,
    bucketVars,
    flushVars,
    trackVars,
    indentVars>>
otherThanWrite == <<unifyVars, curveVars, nodeVars, skinVars, geometryVars, executeVars,
    bakeVars,
    deindexVars,
    bucketVars,
    flushVars,
    trackVars,
    indentVars>>
otherThanGeometry == <<unifyVars, curveVars, nodeVars, skinVars, writeVars, executeVars,
    bakeVars,
    deindexVars,
    bucketVars,
    flushVars,
    trackVars,
    indentVars>>
otherThanExecute == <<unifyVars, curveVars, nodeVars, skinVars, writeVars, geometryVars,
    bakeVars,
    deindexVars,
    bucketVars,
    flushVars,
    trackVars,
    indentVars>>
otherThanBake ==
    <<unifyVars, curveVars, nodeVars, skinVars, writeVars, geometryVars, executeVars,
    deindexVars,
    bucketVars,
    flushVars,
    trackVars,
    indentVars>>
otherThanDeindex ==
    <<unifyVars, curveVars, nodeVars, skinVars, writeVars, geometryVars, executeVars, bakeVars,
    bucketVars,
    flushVars,
    trackVars,
    indentVars>>
otherThanBucket ==
    <<unifyVars, curveVars, nodeVars, skinVars, writeVars, geometryVars, executeVars, bakeVars, deindexVars,
    flushVars,
    trackVars,
    indentVars>>
otherThanFlush ==
    <<unifyVars, curveVars, nodeVars, skinVars, writeVars, geometryVars, executeVars, bakeVars, deindexVars, bucketVars,
    trackVars,
    indentVars>>
otherThanTrack ==
    <<unifyVars, curveVars, nodeVars, skinVars, writeVars, geometryVars, executeVars, bakeVars, deindexVars, bucketVars, flushVars,
    indentVars>>
otherThanIndent ==
    <<unifyVars, curveVars, nodeVars, skinVars, writeVars, geometryVars, executeVars, bakeVars, deindexVars, bucketVars, flushVars, trackVars>>

-----------------------------------------------------------------------------
(* Bounds of the model *)

\* longest seed sequence of corners the corner array is built from
MaxLen == 3
\* how many times the seed is repeated to build a long corner array
MaxRep == 6
\* most keyframes on a curve
MaxKeys == 3
\* longest corner array without duplicates
MaxDistinct == 33
\* most curves in the action of a node
MaxCurves == 2
\* scene.frame_end, with scene.frame_start = 1
LastFrame == 3
\* the longest exportVertexArray handed to ExportSkin
MaxSkin == 3
\* an array handed to an array writer fills at most this many lines and one
\* element more
MaxLines == 2
\* the most triangles of a mesh and the largest material index of a triangle
MaxTriangles == 4
MaxMaterial == 2

\* the longest frame range, frame_end - frame_start, that is baked
MaxFrames == 2

\* how many sampled animation operations run one after the other
MaxOps == 2

\* the longest exportVertexArray the bucket count is computed for
MaxVertices == 70

-----------------------------------------------------------------------------
(* Generic helpers *)

RECURSIVE SeqsUpTo(_, _)
\* all sequences over S of length at most n
SeqsUpTo(S, n) ==
    IF n = 0 THEN {<<>>}
    ELSE LET shorter == SeqsUpTo(S, n - 1)
         IN  shorter \cup {Append(s, x) : s \in {t \in shorter : Len(t) = n - 1}, x \in S}

RECURSIVE Repeat(_, _)
Repeat(s, n) == IF n = 0 THEN <<>> ELSE s \o Repeat(s, n - 1)

Abs(x) == IF x < 0 THEN -x ELSE x

-----------------------------------------------------------------------------
(* A component that is not running *)

UnifyIdle ==
    /\ exportVertexArray = <<>>
    /\ indexTable = <<>>
    /\ unifiedVertexArray = <<>>
    /\ hashTable = <<>>
    /\ bucketCount = 0
    /\ ui = 0
    /\ upc = "idle"
    /\ upass = 0

CurveIdle ==
    /\ fcurve = <<>>
    /\ ckind = -1
    /\ presentKind = -1
    /\ cpresent = FALSE
    /\ cpc = "idle"

NodeIdle ==
    /\ node = <<>>
    /\ sampleAnimationFlag = FALSE
    /\ animCurve = <<>>
    /\ animKind = <<>>
    /\ animated = <<>>
    /\ sampledAnimation = FALSE
    /\ nk = 0
    /\ npc = "idle"
    /\ doc = <<>>
    /\ frameCurrent = 0

SkinIdle ==
    /\ skinVertexArray = <<>>
    /\ boneCountArray = <<>>
    /\ boneIndexArray = <<>>
    /\ boneWeightArray = <<>>
    /\ sk = 0
    /\ spc = "idle"

WriteIdle ==
    /\ writeCall = <<>>
    /\ option_float_as_hex = FALSE
    /\ indentLevel = 0
    /\ file = <<>>
    /\ wpc = "idle"

GeometryIdle ==
    /\ materialTable = <<>>
    /\ geometryIndexTable = <<>>
    /\ maxMaterialIndex = 0
    /\ gm = 0
    /\ indexArrays = <<>>
    /\ gpc = "idle"

ExecuteIdle ==
    /\ scene = <<>>
    /\ nodeArray = <<>>
    /\ er = 0
    /\ buffer = <<>>
    /\ opened = 0
    /\ disk = <<>>
    /\ result = ""
    /\ epc = "idle"

BakeIdle ==
    /\ bake = <<>>
    /\ frame_start = 0
    /\ frame_end = 0
    /\ frame_current = 0
    /\ frame_subframe = 0
    /\ originalFrame = <<>>
    /\ entryFrame = <<>>
    /\ animationFlag = FALSE
    /\ bi = 0
    /\ baked = <<>>
    /\ bcount = 0
    /\ bpc = "idle"

DeindexIdle ==
    /\ mesh = <<>>
    /\ shouldExportVertexColor = FALSE
    /\ colorArray = <<>>
    /\ dface = 0
    /\ dpc = "idle"

BucketIdle ==
    /\ vertexCount = 0
    /\ vertexHash = 0
    /\ roundCount = 0
    /\ routed = 0
    /\ kpc = "idle"

FlushIdle ==
    /\ bufferClass = ""
    /\ bytesio = <<>>
    /\ bytesioPos = 0
    /\ writes = <<>>
    /\ fileData = <<>>
    /\ fpc = "idle"

TrackIdle ==
    /\ trackSubject = <<>>
    /\ tdoc = <<>>
    /\ ta = 0
    /\ tpc = "idle"

IndentIdle ==
    /\ callStack = <<>>
    /\ deepest = 0
    /\ ipc = "idle"

-----------------------------------------------------------------------------
(* Python integers are unbounded: the hash of a vertex does not fit in 32   *)
(* bits.  A hash is kept as its digits in base 21737, least significant     *)
(* first, without high zero digits (0 is the empty sequence).               *)

HashMultiplier == 21737

RECURSIVE Carry(_, _)
Carry(d, c) ==
    IF d = <<>>
    THEN IF c = 0 THEN <<>> ELSE <<c % HashMultiplier>> \o Carry(<<>>, c \div HashMultiplier)
    ELSE LET t == Head(d) + c
         IN  <<t % HashMultiplier>> \o Carry(Tail(d), t \div HashMultiplier)

RECURSIVE StripHigh(_)
StripHigh(d) ==
    IF d # <<>> /\ d[Len(d)] = 0 THEN StripHigh(SubSeq(d, 1, Len(d) - 1)) ELSE d

\* the big integer h * 21737 + x, for x >= 0
BigMulAdd(h, x) == StripHigh(Carry(<<x>> \o h, 0))

RECURSIVE BigMod(_, _)
\* the big integer h modulo m, for a small m: h = h[1] + 21737 * (the rest)
BigMod(h, m) ==
    IF h = <<>> THEN 0
    ELSE (h[1] + (HashMultiplier % m) * BigMod(Tail(h), m)) % m

\* hash(x) of a Python float holding a small non-negative integer is that integer
PyHashFloat(x) == x

-----------------------------------------------------------------------------
(* ExportVertex *)

VertexFields(v) == v.position \o v.normal \o v.color \o v.texcoord0 \o v.texcoord1

RECURSIVE HornerHash(_, _)
HornerHash(h, fs) ==
    IF fs = <<>> THEN h
    ELSE HornerHash(BigMulAdd(h, PyHashFloat(Head(fs))), Tail(fs))

\* ExportVertex.Hash: h = hash(position[0]); h = h * 21737 + hash(next field) ...
Hash(v) ==
    LET fs == VertexFields(v)
    IN  HornerHash(StripHigh(Carry(<<PyHashFloat(Head(fs))>>, 0)), Tail(fs))

\* ExportVertex.__eq__ as a mutant: the hash alone decides
ExportVertexEqHashOnly(a, b) == a.hash = b.hash

\* ExportVertex.__eq__ as a mutant: the position is not compared
ExportVertexEqNoPosition(a, b) ==
    /\ a.hash = b.hash
    /\ a.normal = b.normal
    /\ a.color = b.color
    /\ a.texcoord0 = b.texcoord0
    /\ a.texcoord1 = b.texcoord1

\* ExportVertex.__eq__
ExportVertexEq(a, b) ==
    IF a.hash # b.hash THEN FALSE
    ELSE IF a.position # b.position THEN FALSE
    ELSE IF a.normal # b.normal THEN FALSE
    ELSE IF a.color # b.color THEN FALSE
    ELSE IF a.texcoord0 # b.texcoord0 THEN FALSE
    ELSE IF a.texcoord1 # b.texcoord1 THEN FALSE
    ELSE TRUE

\* an ExportVertex as deindex_mesh leaves it: the fields set, then Hash() called
ExportVertex(vi, pos, nrm, col, tc0, tc1) ==
    LET raw == [vertexIndex |-> vi, position |-> pos, normal |-> nrm, color |-> col,
                texcoord0 |-> tc0, texcoord1 |-> tc1]
    IN  [vertexIndex |-> vi, position |-> pos, normal |-> nrm, color |-> col,
         texcoord0 |-> tc0, texcoord1 |-> tc1, hash |-> Hash(raw)]

\* The corners the corner arrays are drawn from.  They differ in a single field
\* with hashes in different buckets (the last field by 1), in a single field
\* with hashes in the same bucket (the last field by 2), in two components of
\* the position with EQUAL hashes (y + 1 against z + 21737), and in the mesh
\* vertex they come from only.
VertexPool ==
    { ExportVertex(0, <<0, 0, 0>>, <<0, 0, 0>>, <<1, 1, 1>>, <<0, 0>>, <<0, 0>>),
      ExportVertex(0, <<0, 0, 0>>, <<0, 0, 0>>, <<1, 1, 1>>, <<0, 0>>, <<0, 1>>),
      ExportVertex(0, <<0, 0, 0>>, <<0, 0, 0>>, <<1, 1, 1>>, <<0, 0>>, <<0, 2>>),
      ExportVertex(1, <<0, 1, 0>>, <<0, 0, 0>>, <<1, 1, 1>>, <<0, 0>>, <<0, 0>>),
      ExportVertex(2, <<0, 0, 21737>>, <<0, 0, 0>>, <<1, 1, 1>>, <<0, 0>>, <<0, 0>>),
      ExportVertex(3, <<0, 0, 0>>, <<0, 0, 0>>, <<1, 1, 1>>, <<0, 0>>, <<0, 0>>) }

\* n corners, no two of them equal: they differ in the last field
DistinctCorners(n) ==
    [k \in 1 .. n |->
        ExportVertex(k - 1, <<0, 0, 0>>, <<0, 0, 0>>, <<1, 1, 1>>, <<0, 0>>, <<0, k - 1>>)]

-----------------------------------------------------------------------------
(* unify_vertices *)

RECURSIVE LowestSetBit(_)
LowestSetBit(n) == IF n % 2 = 1 THEN 1 ELSE 2 * LowestSetBit(n \div 2)

\* n & (n - 1), for n >= 1: n with its lowest set bit cleared
ClearLowestBit(n) == n - LowestSetBit(n)

RECURSIVE RoundDownPow2(_)
\* the loop "while True: count = bucketCount & (bucketCount - 1) ..."
RoundDownPow2(n) ==
    LET count == ClearLowestBit(n)
    IN  IF count = 0 THEN n ELSE RoundDownPow2(count)

\* bucketCount as unify_vertices computes it from len(exportVertexArray)
BucketCountOf(n) ==
    LET b == n \div 8
    IN  IF b > 1 THEN RoundDownPow2(b) ELSE 1

\* ev.hash & (bucketCount - 1), bucketCount a power of two
BucketOf(ev, bc) == BigMod(ev.hash, bc)

\* find_export_vertex as a mutant: only the head of the bucket is looked at
FindHeadOnly(bucket, array, vertex) ==
    IF bucket # <<>> /\ ExportVertexEq(array[bucket[1] + 1], vertex) THEN bucket[1] ELSE -1

RECURSIVE FindByPositionFrom(_, _, _, _)
FindByPositionFrom(bucket, array, vertex, k) ==
    IF k > Len(bucket) THEN -1
    ELSE IF array[bucket[k] + 1].position = vertex.position THEN bucket[k]
    ELSE FindByPositionFrom(bucket, array, vertex, k + 1)

\* find_export_vertex as a mutant: vertices are matched by position alone
FindByPosition(bucket, array, vertex) == FindByPositionFrom(bucket, array, vertex, 1)

RECURSIVE FindFrom(_, _, _, _)
FindFrom(bucket, array, vertex, k) ==
    IF k > Len(bucket) THEN -1
    ELSE IF ExportVertexEq(array[bucket[k] + 1], vertex) THEN bucket[k]
    ELSE FindFrom(bucket, array, vertex, k + 1)

\* find_export_vertex: the first position in the bucket holding an equal vertex
find_export_vertex(bucket, array, vertex) == FindFrom(bucket, array, vertex, 1)

\* the corner arrays unify_vertices is run on: a seed, repeated
CornerArrays ==
    { Repeat(seed, rep) : seed \in SeqsUpTo(VertexPool, MaxLen), rep \in {1, MaxRep} }
    \cup { DistinctCorners(n) : n \in 0 .. MaxDistinct }

InitUnify ==
    /\ CurveIdle
    /\ NodeIdle
    /\ SkinIdle
    /\ WriteIdle
    /\ GeometryIdle
    /\ ExecuteIdle
    /\ BakeIdle
    /\ DeindexIdle
    /\ BucketIdle
    /\ FlushIdle
    /\ TrackIdle
    /\ IndentIdle
    /\ exportVertexArray \in CornerArrays
    /\ indexTable = <<>>
    /\ unifiedVertexArray = <<>>
    /\ hashTable = <<>>
    /\ bucketCount = 0
    /\ ui = 0
    /\ upc = "ready"
    /\ upass = 1

\* unify_vertices, up to the loop over the corners
UnifyBegin ==
    /\ upc = "ready"
    /\ bucketCount' = BucketCountOf(Len(exportVertexArray))
    /\ hashTable' = [b \in 0 .. (BucketCountOf(Len(exportVertexArray)) - 1) |-> <<>>]
    /\ unifiedVertexArray' = <<>>
    /\ ui' = 0
    /\ upc' = "loop"
    /\ UNCHANGED <<exportVertexArray, indexTable, upass, otherThanUnify>>

\* one iteration of "for i in range(len(exportVertexArray))"
UnifyStep ==
    /\ upc = "loop"
    /\ ui < Len(exportVertexArray)
    /\ LET ev == exportVertexArray[ui + 1]
           bucket == BucketOf(ev, bucketCount)
           index == find_export_vertex(hashTable[bucket], exportVertexArray, ev)
       IN  IF index < 0
           THEN /\ indexTable' = Append(indexTable, Len(unifiedVertexArray))
                /\ unifiedVertexArray' = Append(unifiedVertexArray, ev)
                /\ hashTable' = [hashTable EXCEPT ![bucket] = Append(@, ui)]
           ELSE /\ indexTable' = Append(indexTable, indexTable[index + 1])
                /\ UNCHANGED <<unifiedVertexArray, hashTable>>
    /\ ui' = ui + 1
    /\ UNCHANGED <<exportVertexArray, bucketCount, upc, upass, otherThanUnify>>

\* the loop is over: return unifiedVertexArray
UnifyReturn ==
    /\ upc = "loop"
    /\ ui = Len(exportVertexArray)
    /\ upc' = "done"
    /\ UNCHANGED <<exportVertexArray, indexTable, unifiedVertexArray, hashTable,
                   bucketCount, ui, upass, otherThanUnify>>

\* a second call, on the array the first call returned, with a fresh index table
UnifyAgain ==
    /\ upc = "done"
    /\ upass = 1
    /\ exportVertexArray' = unifiedVertexArray
    /\ indexTable' = <<>>
    /\ unifiedVertexArray' = <<>>
    /\ hashTable' = <<>>
    /\ bucketCount' = 0
    /\ ui' = 0
    /\ upc' = "ready"
    /\ upass' = 2
    /\ UNCHANGED <<otherThanUnify>>

NextUnify == UnifyBegin \/ UnifyStep \/ UnifyReturn \/ UnifyAgain

SpecUnify == InitUnify /\ [][NextUnify]_vars

-----------------------------------------------------------------------------
(* Properties of unify_vertices *)

\* structural equality of two corners: the same scalar fields
SameFields(a, b) == VertexFields(a) = VertexFields(b)

\* the position (1-based) at which the value of E[i] first occurs in E
FirstOccurrence(E, i) ==
    CHOOSE j \in 1 .. i :
        /\ SameFields(E[j], E[i])
        /\ \A k \in 1 .. (j - 1) : ~SameFields(E[k], E[i])

DuplicateFree(E) ==
    \A i \in 1 .. Len(E) : \A j \in 1 .. Len(E) : SameFields(E[i], E[j]) => i = j

\* C1: when unify_vertices has returned, the index table has one entry per
\* corner, each entry is a valid index into the unified array, and the unified
\* vertex it names has the same fields as the corner: triangles rebuilt from
\* indexTable are the original triangles.
UnifyRoundTrip ==
    upc = "done" =>
        /\ Len(indexTable) = Len(exportVertexArray)
        /\ \A i \in 1 .. Len(exportVertexArray) :
              /\ indexTable[i] \in 0 .. (Len(unifiedVertexArray) - 1)
              /\ SameFields(unifiedVertexArray[indexTable[i] + 1], exportVertexArray[i])

\* C1 witness: a finished call on 16 or more corners (two buckets) holding
\* duplicates and corners with equal hashes but different fields
UnifyRoundTripWitness ==
    /\ upc = "done"
    /\ bucketCount >= 2
    /\ Len(unifiedVertexArray) >= 3
    /\ Len(unifiedVertexArray) < Len(exportVertexArray)
    /\ \E i, j \in 1 .. Len(exportVertexArray) :
          /\ exportVertexArray[i].hash = exportVertexArray[j].hash
          /\ ~SameFields(exportVertexArray[i], exportVertexArray[j])

\* C2: the unified array holds no two equal vertices, is no longer than the
\* corner array, and unified indices are handed out 0, 1, 2, ... in the order
\* in which values first occur.
UnifyFirstOccurrenceOrder ==
    upc = "done" =>
        /\ DuplicateFree(unifiedVertexArray)
        /\ Len(indexTable) = Len(exportVertexArray)
        /\ Len(unifiedVertexArray) <= Len(exportVertexArray)
        /\ \A i \in 1 .. Len(exportVertexArray) :
              indexTable[i] =
                Cardinality({ j \in 1 .. (FirstOccurrence(exportVertexArray, i) - 1) :
                                FirstOccurrence(exportVertexArray, j) = j })

\* C2 witness: a finished call with two buckets in which a value occurs again
\* after other values have first occurred
UnifyFirstOccurrenceWitness ==
    /\ upc = "done"
    /\ bucketCount >= 2
    /\ \E i \in 1 .. Len(exportVertexArray) :
          /\ FirstOccurrence(exportVertexArray, i) < i
          /\ indexTable[i] >= 1
          /\ indexTable[i] < Len(unifiedVertexArray) - 1

\* C3: corners that differ in any field never receive the same unified index
UnifyExact ==
    \A i \in 1 .. Len(indexTable) : \A j \in 1 .. Len(indexTable) :
        ~SameFields(exportVertexArray[i], exportVertexArray[j])
            => indexTable[i] # indexTable[j]

\* C3 witness: a finished call whose corners hold a pair with equal hashes and
\* different fields, and a pair in the same bucket differing in one field
UnifyExactWitness ==
    /\ upc = "done"
    /\ bucketCount >= 2
    /\ \E i, j \in 1 .. Len(exportVertexArray) :
          /\ exportVertexArray[i].hash = exportVertexArray[j].hash
          /\ ~SameFields(exportVertexArray[i], exportVertexArray[j])
    /\ \E i, j \in 1 .. Len(exportVertexArray) :
          /\ exportVertexArray[i].hash # exportVertexArray[j].hash
          /\ BucketOf(exportVertexArray[i], bucketCount)
               = BucketOf(exportVertexArray[j], bucketCount)

\* C4: on a corner array without duplicates unify_vertices returns the array
\* itself and fills the index table with 0, 1, ..., N-1
UnifyIdempotent ==
    (upc = "done" /\ DuplicateFree(exportVertexArray)) =>
        /\ unifiedVertexArray = exportVertexArray
        /\ indexTable = [i \in 1 .. Len(exportVertexArray) |-> i - 1]

\* C4 witness: a finished second call, run on the duplicate-free result of a
\* first call, with 32 or more corners spread over several buckets
UnifyIdempotentWitness ==
    /\ upc = "done"
    /\ upass = 2
    /\ bucketCount >= 4
    /\ DuplicateFree(exportVertexArray)
    /\ \E b \in 0 .. (bucketCount - 1) : Len(hashTable[b]) >= 2

-----------------------------------------------------------------------------
(* Animation curves: ClassifyAnimationCurve and AnimationPresent *)

ANIMATION_SAMPLED == 0
ANIMATION_LINEAR == 1
ANIMATION_BEZIER == 2

\* 1.0e-6, in units of 1e-7
EPSILON == 10

\* a keyframe at a frame: its interpolation tag, its point co = (frame, value)
\* and its two handles, each a (frame, value) pair.  Python's p[0] is p[1]
\* here and Python's p[1] is p[2].
KeyAt(frame, interp, value, left, right) ==
    [interpolation |-> interp, co |-> <<frame, value>>,
     handle_left |-> <<frame - 1, left>>, handle_right |-> <<frame + 1, right>>]

\* a keyframe of a curve of which only the values are looked at
Keyframe(interp, value, left, right) == KeyAt(0, interp, value, left, right)

\* The keyframes curves are built from: values 0, 6 and -6 lie within EPSILON
\* of 0 but 6 and -6 lie 12 apart; 10 lies exactly EPSILON from 0; handles
\* are level with the key, or off by 20 or by exactly EPSILON on one side.
KeyframePool ==
    { Keyframe("LINEAR", 0, 0, 0), Keyframe("LINEAR", 6, 6, 6),
      Keyframe("LINEAR", -6, -6, -6), Keyframe("LINEAR", 10, 10, 10),
      Keyframe("BEZIER", 0, 0, 0), Keyframe("BEZIER", 6, 6, 6),
      Keyframe("BEZIER", -6, -6, -6),
      Keyframe("BEZIER", 0, -20, 0), Keyframe("BEZIER", 0, 0, 20),
      Keyframe("BEZIER", 0, 0, 10),
      Keyframe("CONSTANT", 0, 0, 0), Keyframe("CONSTANT", 6, 6, 6) }

RECURSIVE ClassifyCountingOdd(_, _, _, _)
\* ClassifyAnimationCurve as a mutant: a keyframe that is neither LINEAR nor
\* BEZIER is skipped instead of ending the loop
ClassifyCountingOdd(keys, k, linearCount, bezierCount) ==
    IF k > Len(keys)
    THEN IF bezierCount = 0 THEN ANIMATION_LINEAR
         ELSE IF linearCount = 0 THEN ANIMATION_BEZIER
         ELSE ANIMATION_SAMPLED
    ELSE IF keys[k].interpolation = "LINEAR"
         THEN ClassifyCountingOdd(keys, k + 1, linearCount + 1, bezierCount)
    ELSE IF keys[k].interpolation = "BEZIER"
         THEN ClassifyCountingOdd(keys, k + 1, linearCount, bezierCount + 1)
    ELSE ClassifyCountingOdd(keys, k + 1, linearCount, bezierCount)

ClassifySkippingOdd(keys) == ClassifyCountingOdd(keys, 1, 0, 0)

RECURSIVE ClassifyLoop(_, _, _, _)
\* the loop of ClassifyAnimationCurve from keyframe k on, and what follows it
ClassifyLoop(keys, k, linearCount, bezierCount) ==
    IF k > Len(keys)
    THEN IF bezierCount = 0 THEN ANIMATION_LINEAR
         ELSE IF linearCount = 0 THEN ANIMATION_BEZIER
         ELSE ANIMATION_SAMPLED
    ELSE IF keys[k].interpolation = "LINEAR"
         THEN ClassifyLoop(keys, k + 1, linearCount + 1, bezierCount)
    ELSE IF keys[k].interpolation = "BEZIER"
         THEN ClassifyLoop(keys, k + 1, linearCount, bezierCount + 1)
    ELSE ANIMATION_SAMPLED

ClassifyAnimationCurve(keys) == ClassifyLoop(keys, 1, 0, 0)

\* AnimationKeysDifferent as a mutant: >= instead of >
AnimationKeysDifferentGE(keys) ==
    /\ Len(keys) > 0
    /\ \E i \in 2 .. Len(keys) : Abs(keys[i].co[2] - keys[1].co[2]) >= EPSILON

RECURSIVE KeysDifferentFrom(_, _, _)
KeysDifferentFrom(keys, key1, i) ==
    IF i > Len(keys) THEN FALSE
    ELSE IF Abs(keys[i].co[2] - key1) > EPSILON THEN TRUE
    ELSE KeysDifferentFrom(keys, key1, i + 1)

\* AnimationKeysDifferent: every later keyframe is compared with the first
AnimationKeysDifferent(keys) ==
    IF Len(keys) > 0 THEN KeysDifferentFrom(keys, keys[1].co[2], 2) ELSE FALSE

\* AnimationTangentsNonzero as a mutant: the right handle is not looked at
AnimationTangentsNonzeroLeftOnly(keys) ==
    \E i \in 1 .. Len(keys) : Abs(keys[i].co[2] - keys[i].handle_left[2]) > EPSILON

RECURSIVE TangentsNonzeroFrom(_, _)
TangentsNonzeroFrom(keys, i) ==
    IF i > Len(keys) THEN FALSE
    ELSE IF \/ Abs(keys[i].co[2] - keys[i].handle_left[2]) > EPSILON
            \/ Abs(keys[i].handle_right[2] - keys[i].co[2]) > EPSILON
         THEN TRUE
    ELSE TangentsNonzeroFrom(keys, i + 1)

\* AnimationTangentsNonzero: keyframe 0, then keyframes 1 .. keyCount - 1
AnimationTangentsNonzero(keys) ==
    IF Len(keys) > 0 THEN TangentsNonzeroFrom(keys, 1) ELSE FALSE

\* AnimationPresent as a mutant: the tangents are looked at for every kind
AnimationPresentAnyKind(keys, kind) ==
    AnimationKeysDifferent(keys) \/ AnimationTangentsNonzero(keys)

\* AnimationPresent
AnimationPresent(keys, kind) ==
    IF kind # ANIMATION_BEZIER THEN AnimationKeysDifferent(keys)
    ELSE AnimationKeysDifferent(keys) \/ AnimationTangentsNonzero(keys)

InitCurve ==
    /\ UnifyIdle
    /\ NodeIdle
    /\ SkinIdle
    /\ WriteIdle
    /\ GeometryIdle
    /\ ExecuteIdle
    /\ BakeIdle
    /\ DeindexIdle
    /\ BucketIdle
    /\ FlushIdle
    /\ TrackIdle
    /\ IndentIdle
    /\ fcurve \in SeqsUpTo(KeyframePool, MaxKeys)
    /\ ckind = -1
    /\ presentKind = -1
    /\ cpresent = FALSE
    /\ cpc = "ready"

\* kind = ClassifyAnimationCurve(fcurve)
Classify ==
    /\ cpc = "ready"
    /\ ckind' = ClassifyAnimationCurve(fcurve)
    /\ cpc' = "classified"
    /\ UNCHANGED <<fcurve, presentKind, cpresent, otherThanCurve>>

\* AnimationPresent(fcurve, kind), for any of the three kinds
Present ==
    /\ cpc = "classified"
    /\ \E kind \in {ANIMATION_SAMPLED, ANIMATION_LINEAR, ANIMATION_BEZIER} :
          /\ presentKind' = kind
          /\ cpresent' = AnimationPresent(fcurve, kind)
    /\ cpc' = "done"
    /\ UNCHANGED <<fcurve, ckind, otherThanCurve>>

NextCurve == Classify \/ Present

SpecCurve == InitCurve /\ [][NextCurve]_vars

-----------------------------------------------------------------------------
(* ExportNodeTransform: the node and the scene *)

\* 1.0 in units of 1e-7
ONE == 10000000

\* self.beginFrame = scene.frame_start
beginFrame == 1
\* self.endFrame = scene.frame_end
endFrame == LastFrame
\* self.frameTime, in milliseconds, for a scene at 25 frames per second
frameTime == 40

\* the six groups of channels, named by the data_path of their curves
GroupSet == {"delta_location", "location", "delta_rotation_euler", "rotation_euler",
             "delta_scale", "scale"}

SampledPaths == {"rotation_axis_angle", "rotation_quaternion", "delta_rotation_quaternion"}

EulerModes == {"XYZ", "ZYX"}

\* ord(mode[k]) - 0x58 for k = 0, 1, 2
ModeAxes(mode) == IF mode = "XYZ" THEN <<0, 1, 2>> ELSE <<2, 1, 0>>

FCurve(path, index, keys) == [data_path |-> path, array_index |-> index, keyframe_points |-> keys]

\* keyframes at times 0, 10, 20 with values 0, 50e-7, 0: all Bezier, level handles
BezMove3 == <<KeyAt(0, "BEZIER", 0, 0, 0), KeyAt(10, "BEZIER", 50, 50, 50),
              KeyAt(20, "BEZIER", 0, 0, 0)>>
\* one Bezier keyframe whose right handle is off by 20e-7
BezTangent1 == <<KeyAt(0, "BEZIER", 0, 0, 20)>>
LinMove2 == <<KeyAt(0, "LINEAR", 0, 0, 0), KeyAt(10, "LINEAR", 50, 50, 50)>>
LinFlat2 == <<KeyAt(0, "LINEAR", 0, 0, 0), KeyAt(10, "LINEAR", 0, 0, 0)>>
ConstFlat1 == <<KeyAt(0, "CONSTANT", 0, 0, 0)>>
MixedMove2 == <<KeyAt(0, "LINEAR", 0, 0, 0), KeyAt(10, "BEZIER", 50, 50, 50)>>

\* the curves an action is built from
CurvePool ==
    { FCurve("location", 0, BezMove3), FCurve("location", 1, BezMove3),
      FCurve("location", 2, BezMove3), FCurve("location", 2, LinMove2),
      FCurve("location", 0, LinFlat2), FCurve("location", 0, ConstFlat1),
      FCurve("location", 1, MixedMove2),
      FCurve("rotation_euler", 1, BezTangent1), FCurve("scale", 2, LinMove2),
      FCurve("delta_location", 0, LinMove2), FCurve("delta_rotation_euler", 2, BezMove3),
      FCurve("delta_scale", 1, LinMove2),
      FCurve("rotation_quaternion", 0, LinMove2), FCurve("hide_viewport", 0, LinMove2) }

\* the transform properties of a node that are not animation
StaticIdentity ==
    [location |-> <<0, 0, 0>>, delta_location |-> <<0, 0, 0>>,
     rotation_euler |-> <<0, 0, 0>>, delta_rotation_euler |-> <<0, 0, 0>>,
     scale |-> <<ONE, ONE, ONE>>, delta_scale |-> <<ONE, ONE, ONE>>]

StaticMoved ==
    [location |-> <<0, 300, 0>>, delta_location |-> <<50, 0, 0>>,
     rotation_euler |-> <<0, 0, 200>>, delta_rotation_euler |-> <<0, 7, 0>>,
     scale |-> <<ONE, ONE, 2 * ONE>>, delta_scale |-> <<ONE, ONE, ONE>>]

\* a 4x4 matrix, as rows
IdentityMatrix ==
    <<<<ONE, 0, 0, 0>>, <<0, ONE, 0, 0>>, <<0, 0, ONE, 0>>, <<0, 0, 0, ONE>>>>

MovedMatrix ==
    <<<<ONE, 0, 0, 50>>, <<0, ONE, 0, 0>>, <<0, 0, ONE, 0>>, <<0, 0, 0, ONE>>>>

\* node.matrix_local with the scene at a frame: the node stands still before
\* node.moveFrame and is displaced from that frame on (from the second frame,
\* at the last frame only, or never)
MatrixLocal(n, frame) == IF frame >= n.moveFrame THEN MovedMatrix ELSE IdentityMatrix

\* the nodes ExportNodeTransform is run on
Nodes ==
    { [rotation_mode |-> mode, has_animation_data |-> had, has_action |-> hac,
       fcurves |-> fcs, static |-> st, moveFrame |-> mf] :
        mode \in EulerModes \cup {"QUATERNION", "AXIS_ANGLE"},
        had \in BOOLEAN, hac \in BOOLEAN,
        fcs \in SeqsUpTo(CurvePool, MaxCurves),
        st \in {StaticIdentity, StaticMoved},
        mf \in {beginFrame + 1, endFrame, endFrame + 1} }

\* a node has an action only with animation data, and curves only in an action
WellFormedNode(n) ==
    /\ n.has_action => n.has_animation_data
    /\ ~n.has_action => n.fcurves = <<>>

InitNode ==
    /\ UnifyIdle
    /\ CurveIdle
    /\ SkinIdle
    /\ WriteIdle
    /\ GeometryIdle
    /\ ExecuteIdle
    /\ BakeIdle
    /\ DeindexIdle
    /\ BucketIdle
    /\ FlushIdle
    /\ TrackIdle
    /\ IndentIdle
    /\ node \in {n \in Nodes : WellFormedNode(n)}
    /\ sampleAnimationFlag \in BOOLEAN
    /\ animCurve = <<>>
    /\ animKind = <<>>
    /\ animated = <<>>
    /\ sampledAnimation = FALSE
    /\ nk = 0
    /\ npc = "start"
    /\ doc = <<>>
    /\ frameCurrent = beginFrame

\* ExportNodeTransform up to the loop over the curves of the action
NodeBegin ==
    /\ npc = "start"
    /\ animCurve' = [g \in GroupSet |-> [i \in 0 .. 2 |-> 0]]
    /\ animKind' = [g \in GroupSet |-> [i \in 0 .. 2 |-> 0]]
    /\ animated' = [g \in GroupSet |-> [i \in 0 .. 2 |-> FALSE]]
    /\ sampledAnimation' = (\/ sampleAnimationFlag
                            \/ node.rotation_mode = "QUATERNION"
                            \/ node.rotation_mode = "AXIS_ANGLE")
    /\ nk' = 0
    /\ npc' = IF ~sampledAnimation' /\ node.has_animation_data /\ node.has_action
              THEN "collect" ELSE "write"
    /\ UNCHANGED <<node, sampleAnimationFlag, doc, frameCurrent,
                   otherThanNode>>

\* one iteration of the loop as a mutant: a curve that classifies as Sampled
\* is passed over once a channel has been marked animated
CollectCurveKeepsPresent(fc, pos, curves, kinds, anims) ==
    LET kind == ClassifyAnimationCurve(fc.keyframe_points)
        g == fc.data_path
        i == fc.array_index
    IN  IF kind # ANIMATION_SAMPLED
        THEN IF g \in GroupSet
             THEN IF i \in 0 .. 2 /\ curves[g][i] = 0
                  THEN [animCurve |-> [curves EXCEPT ![g][i] = pos],
                        animKind |-> [kinds EXCEPT ![g][i] = kind],
                        animated |-> IF AnimationPresent(fc.keyframe_points, kind)
                                     THEN [anims EXCEPT ![g][i] = TRUE] ELSE anims,
                        sampled |-> FALSE]
                  ELSE [animCurve |-> curves, animKind |-> kinds, animated |-> anims,
                        sampled |-> FALSE]
             ELSE [animCurve |-> curves, animKind |-> kinds, animated |-> anims,
                   sampled |-> g \in SampledPaths]
        ELSE [animCurve |-> curves, animKind |-> kinds, animated |-> anims,
              sampled |-> \A h \in GroupSet : \A j \in 0 .. 2 : ~anims[h][j]]

\* what one iteration of "for fcurve in action.fcurves" does with the curve at
\* position pos: the three tables, and whether the loop is left (sampled)
CollectCurve(fc, pos, curves, kinds, anims) ==
    LET kind == ClassifyAnimationCurve(fc.keyframe_points)
        g == fc.data_path
        i == fc.array_index
    IN  IF kind # ANIMATION_SAMPLED
        THEN IF g \in GroupSet
             THEN IF i \in 0 .. 2 /\ curves[g][i] = 0
                  THEN [animCurve |-> [curves EXCEPT ![g][i] = pos],
                        animKind |-> [kinds EXCEPT ![g][i] = kind],
                        animated |-> IF AnimationPresent(fc.keyframe_points, kind)
                                     THEN [anims EXCEPT ![g][i] = TRUE] ELSE anims,
                        sampled |-> FALSE]
                  ELSE [animCurve |-> curves, animKind |-> kinds, animated |-> anims,
                        sampled |-> FALSE]
             ELSE [animCurve |-> curves, animKind |-> kinds, animated |-> anims,
                   sampled |-> g \in SampledPaths]
        ELSE [animCurve |-> curves, animKind |-> kinds, animated |-> anims,
              sampled |-> TRUE]

\* one iteration of the loop over the curves; a sampled curve ends the loop
NodeCollectStep ==
    /\ npc = "collect"
    /\ nk < Len(node.fcurves)
    /\ LET r == CollectCurve(node.fcurves[nk + 1], nk + 1, animCurve, animKind, animated)
       IN  /\ animCurve' = r.animCurve
           /\ animKind' = r.animKind
           /\ animated' = r.animated
           /\ sampledAnimation' = r.sampled
           /\ npc' = IF r.sampled THEN "write" ELSE "collect"
    /\ nk' = nk + 1
    /\ UNCHANGED <<node, sampleAnimationFlag, doc, frameCurrent,
                   otherThanNode>>

\* the loop over the curves has run to its end
NodeCollectEnd ==
    /\ npc = "collect"
    /\ nk = Len(node.fcurves)
    /\ npc' = "write"
    /\ UNCHANGED <<node, sampleAnimationFlag, animCurve, animKind, animated,
                   sampledAnimation, nk, doc, frameCurrent,
                   otherThanNode>>

-----------------------------------------------------------------------------
(* ExportNodeTransform: what is written *)

subtranslationName == <<"xpos", "ypos", "zpos">>
subrotationName == <<"xrot", "yrot", "zrot">>
subscaleName == <<"xscl", "yscl", "zscl">>
deltaSubtranslationName == <<"dxpos", "dypos", "dzpos">>
deltaSubrotationName == <<"dxrot", "dyrot", "dzrot">>
deltaSubscaleName == <<"dxscl", "dyscl", "dzscl">>
axisName == <<"x", "y", "z">>

\* the list of structure names of a group; axis i (0-based) is entry i + 1
SubName(g) ==
    CASE g = "location" -> subtranslationName
      [] g = "rotation_euler" -> subrotationName
      [] g = "scale" -> subscaleName
      [] g = "delta_location" -> deltaSubtranslationName
      [] g = "delta_rotation_euler" -> deltaSubrotationName
      [] g = "delta_scale" -> deltaSubscaleName

NoKeys == [curve |-> "", keys |-> <<>>, minus |-> <<>>, plus |-> <<>>]

\* a block of the document that is not a Track: its keyword, its %name (or ""),
\* its kind attribute (or "") and the numbers in it
Structure(block, name, kind, values) ==
    [block |-> block, name |-> name, kind |-> kind, values |-> values,
     target |-> "", time |-> NoKeys, value |-> NoKeys]

\* x if cond, as a list
Opt(cond, x) == IF cond THEN <<x>> ELSE <<>>

GroupAnimated(anims, g) == anims[g][0] \/ anims[g][1] \/ anims[g][2]

AnyGroupAnimated(anims) == \E g \in GroupSet : GroupAnimated(anims, g)

\* the Translation structures as a mutant: in an animated group only the
\* animated axes are written
TranslationStructuresAnimatedOnly(g, vec, anims) ==
    LET axis(i) == Opt(anims[g][i],
                       Structure("Translation", SubName(g)[i + 1], axisName[i + 1],
                                 <<vec[i + 1]>>))
    IN  IF GroupAnimated(anims, g) THEN axis(0) \o axis(1) \o axis(2)
        ELSE Opt(\E i \in 1 .. 3 : Abs(vec[i]) > EPSILON,
                 Structure("Translation", "", "", vec))

\* the Translation structures of location or delta_location
TranslationStructures(g, vec, anims) ==
    LET axis(i) == Opt(anims[g][i] \/ Abs(vec[i + 1]) > EPSILON,
                       Structure("Translation", SubName(g)[i + 1], axisName[i + 1],
                                 <<vec[i + 1]>>))
    IN  IF GroupAnimated(anims, g) THEN axis(0) \o axis(1) \o axis(2)
        ELSE Opt(\E i \in 1 .. 3 : Abs(vec[i]) > EPSILON,
                 Structure("Translation", "", "", vec))

\* the Rotation structures of rotation_euler or delta_rotation_euler, for an
\* Euler rotation mode (with QUATERNION or AXIS_ANGLE the node is sampled and
\* this part of ExportNodeTransform is not reached)
RotationStructures(g, vec, anims, mode) ==
    LET axisOf(i) == ModeAxes(mode)[(2 - i) + 1]
        animatedAxis(i) ==
            Opt(anims[g][axisOf(i)] \/ Abs(vec[axisOf(i) + 1]) > EPSILON,
                Structure("Rotation", SubName(g)[axisOf(i) + 1], axisName[axisOf(i) + 1],
                          <<vec[axisOf(i) + 1]>>))
        staticAxis(i) ==
            Opt(Abs(vec[axisOf(i) + 1]) > EPSILON,
                Structure("Rotation", "", axisName[axisOf(i) + 1], <<vec[axisOf(i) + 1]>>))
    IN  IF GroupAnimated(anims, g)
        THEN animatedAxis(0) \o animatedAxis(1) \o animatedAxis(2)
        ELSE staticAxis(0) \o staticAxis(1) \o staticAxis(2)

\* the Scale structures of scale or delta_scale
ScaleStructures(g, vec, anims) ==
    LET axis(i) == Opt(anims[g][i] \/ Abs(vec[i + 1]) > EPSILON,
                       Structure("Scale", SubName(g)[i + 1], axisName[i + 1],
                                 <<vec[i + 1]>>))
    IN  IF GroupAnimated(anims, g) THEN axis(0) \o axis(1) \o axis(2)
        ELSE Opt(\E i \in 1 .. 3 : Abs(vec[i] - ONE) > EPSILON,
                 Structure("Scale", "", "", vec))

\* ExportKeyTimes
ExportKeyTimes(keys) == [i \in 1 .. Len(keys) |-> (keys[i].co[1] - beginFrame) * frameTime]
\* ExportKeyTimeControlPoints: the "-control" and the "+control" list
ExportKeyTimeControlMinus(keys) ==
    [i \in 1 .. Len(keys) |-> (keys[i].handle_left[1] - beginFrame) * frameTime]
ExportKeyTimeControlPlus(keys) ==
    [i \in 1 .. Len(keys) |-> (keys[i].handle_right[1] - beginFrame) * frameTime]
\* ExportKeyValues
ExportKeyValues(keys) == [i \in 1 .. Len(keys) |-> keys[i].co[2]]
\* ExportKeyValueControlPoints: the "-control" and the "+control" list
ExportKeyValueControlMinus(keys) == [i \in 1 .. Len(keys) |-> keys[i].handle_left[2]]
ExportKeyValueControlPlus(keys) == [i \in 1 .. Len(keys) |-> keys[i].handle_right[2]]

\* ExportAnimationTrack as a mutant: the Bezier form is never written
ExportAnimationTrackPlain(keys, kind, target) ==
    [block |-> "Track", name |-> "", kind |-> "", values |-> <<>>, target |-> target,
     time |-> [curve |-> "", keys |-> ExportKeyTimes(keys), minus |-> <<>>, plus |-> <<>>],
     value |-> [curve |-> "", keys |-> ExportKeyValues(keys), minus |-> <<>>, plus |-> <<>>]]

\* ExportAnimationTrack: the Track block of one curve
ExportAnimationTrack(keys, kind, target) ==
    IF kind # ANIMATION_BEZIER
    THEN [block |-> "Track", name |-> "", kind |-> "", values |-> <<>>, target |-> target,
          time |-> [curve |-> "", keys |-> ExportKeyTimes(keys),
                    minus |-> <<>>, plus |-> <<>>],
          value |-> [curve |-> "", keys |-> ExportKeyValues(keys),
                     minus |-> <<>>, plus |-> <<>>]]
    ELSE [block |-> "Track", name |-> "", kind |-> "", values |-> <<>>, target |-> target,
          time |-> [curve |-> "bezier", keys |-> ExportKeyTimes(keys),
                    minus |-> ExportKeyTimeControlMinus(keys),
                    plus |-> ExportKeyTimeControlPlus(keys)],
          value |-> [curve |-> "bezier", keys |-> ExportKeyValues(keys),
                     minus |-> ExportKeyValueControlMinus(keys),
                     plus |-> ExportKeyValueControlPlus(keys)]]

\* the Tracks of one group: one for each animated axis
GroupTracks(n, g, curves, kinds, anims) ==
    LET track(i) ==
            Opt(anims[g][i],
                ExportAnimationTrack(n.fcurves[curves[g][i]].keyframe_points, kinds[g][i],
                                     SubName(g)[i + 1]))
    IN  IF GroupAnimated(anims, g) THEN track(0) \o track(1) \o track(2) ELSE <<>>

\* the order in which ExportNodeTransform writes the structures of the groups
DecomposedStructures(n, anims) ==
    TranslationStructures("delta_location", n.static.delta_location, anims)
    \o TranslationStructures("location", n.static.location, anims)
    \o RotationStructures("delta_rotation_euler", n.static.delta_rotation_euler, anims,
                          n.rotation_mode)
    \o RotationStructures("rotation_euler", n.static.rotation_euler, anims, n.rotation_mode)
    \o ScaleStructures("delta_scale", n.static.delta_scale, anims)
    \o ScaleStructures("scale", n.static.scale, anims)

\* the Animation block (its begin and end attributes, taken from
\* action.frame_range, are left out) and the Tracks in it
DecomposedAnimation(n, curves, kinds, anims) ==
    <<Structure("Animation", "", "", <<>>)>>
    \o GroupTracks(n, "location", curves, kinds, anims)
    \o GroupTracks(n, "rotation_euler", curves, kinds, anims)
    \o GroupTracks(n, "scale", curves, kinds, anims)
    \o GroupTracks(n, "delta_location", curves, kinds, anims)
    \o GroupTracks(n, "delta_rotation_euler", curves, kinds, anims)
    \o GroupTracks(n, "delta_scale", curves, kinds, anims)

\* the test "if (sampledAnimation) or (no group is animated)" as a mutant:
\* only the location group is looked at
WritesSingleMatrixLocationOnly(sampled, anims) ==
    sampled \/ ~GroupAnimated(anims, "location")

\* the test "if (sampledAnimation) or (no group is animated)"
WritesSingleMatrix(sampled, anims) == sampled \/ ~AnyGroupAnimated(anims)

\* the Transform name as a mutant: always %transform
TransformNameAlways(sampled) == "transform"

\* "if sampledAnimation: self.write(b" %transform")"
TransformName(sampled) == IF sampled THEN "transform" ELSE ""

\* the node transform is written as a single 4x4 matrix
NodeWriteMatrix ==
    /\ npc = "write"
    /\ WritesSingleMatrix(sampledAnimation, animated)
    /\ doc' = Append(doc, Structure("Transform", TransformName(sampledAnimation), "",
                                    <<MatrixLocal(node, frameCurrent)>>))
    /\ npc' = IF sampledAnimation THEN "sample" ELSE "done"
    /\ UNCHANGED <<node, sampleAnimationFlag, animCurve, animKind, animated,
                   sampledAnimation, nk, frameCurrent, otherThanNode>>

\* the node transform is written as separate structures, then the tracks
NodeWriteDecomposed ==
    /\ npc = "write"
    /\ ~WritesSingleMatrix(sampledAnimation, animated)
    /\ doc' = doc \o DecomposedStructures(node, animated)
                  \o DecomposedAnimation(node, animCurve, animKind, animated)
    /\ npc' = "done"
    /\ UNCHANGED <<node, sampleAnimationFlag, animCurve, animKind, animated,
                   sampledAnimation, nk, frameCurrent, otherThanNode>>

\* MatricesDifferent
MatricesDifferent(m1, m2) ==
    \E i \in 1 .. 4 : \E j \in 1 .. 4 : Abs(m1[i][j] - m2[i][j]) > EPSILON

\* animationFlag of ExportNodeSampledAnimation: m1 is the matrix at the frame
\* the scene is at on entry, compared with frames beginFrame .. endFrame - 1
SampledAnimationFlag(n, currentFrame) ==
    \E f \in beginFrame .. (endFrame - 1) :
        MatricesDifferent(MatrixLocal(n, currentFrame), MatrixLocal(n, f))

\* the Track of ExportNodeSampledAnimation.  In the Time block the loop over
\* range(beginFrame, endFrame) writes ", " only; the one float written is
\* endFrame * frameTime.  The Value block holds the matrix at each frame of
\* range(beginFrame, endFrame) and then the matrix at endFrame.
SampledTrack(n) ==
    [block |-> "Track", name |-> "", kind |-> "", values |-> <<>>, target |-> "transform",
     time |-> [curve |-> "", keys |-> <<endFrame * frameTime>>,
               minus |-> <<>>, plus |-> <<>>],
     value |-> [curve |-> "",
                keys |-> [i \in 1 .. (endFrame - beginFrame + 1) |->
                            MatrixLocal(n, beginFrame + i - 1)],
                minus |-> <<>>, plus |-> <<>>]]

\* ExportNodeSampledAnimation; it ends with scene.frame_set(currentFrame)
NodeSampledAnimation ==
    /\ npc = "sample"
    /\ doc' = IF SampledAnimationFlag(node, frameCurrent)
              THEN doc \o <<Structure("Animation", "", "", <<>>), SampledTrack(node)>>
              ELSE doc
    /\ frameCurrent' = frameCurrent
    /\ npc' = "done"
    /\ UNCHANGED <<node, sampleAnimationFlag, animCurve, animKind, animated,
                   sampledAnimation, nk, otherThanNode>>

NextNode ==
    \/ NodeBegin
    \/ NodeCollectStep
    \/ NodeCollectEnd
    \/ NodeWriteMatrix
    \/ NodeWriteDecomposed
    \/ NodeSampledAnimation

SpecNode == InitNode /\ [][NextNode]_vars

-----------------------------------------------------------------------------
(* ExportSkin: the per-vertex bone influence data.  Bone weights are exact  *)
(* fractions <<numerator, denominator>> in lowest terms; the rounding of    *)
(* floating-point arithmetic is not part of the model.                      *)

RECURSIVE GCD(_, _)
GCD(a, b) == IF b = 0 THEN a ELSE GCD(b, a % b)

Rat(n, d) == IF n = 0 THEN <<0, 1>> ELSE <<n \div GCD(n, d), d \div GCD(n, d)>>

RatAdd(x, y) == Rat(x[1] * y[2] + y[1] * x[2], x[2] * y[2])

RatMul(x, y) == Rat(x[1] * y[1], x[2] * y[2])

\* 1.0 / x, for x # 0
RatInv(x) == Rat(x[2], x[1])

\* a weight of a vertex group is a multiple of 1 / WeightUnit
WeightUnit == 10

\* the names of the bones of the armature, boneArray[i].name
boneArray == <<"arm", "hip", "leg">>

\* the names of node.vertex_groups
vertex_groups == <<"hip", "arm", "prop", "leg">>

\* groupRemap: for each vertex group the index of the first bone of its name,
\* -1 if there is none (entry g + 1 is groupRemap[g])
groupRemap ==
    [g \in 1 .. Len(vertex_groups) |->
        LET named == { i \in 1 .. Len(boneArray) : boneArray[i] = vertex_groups[g] }
        IN  IF named = {} THEN -1
            ELSE (CHOOSE i \in named : \A j \in named : i <= j) - 1]

Element(group, weight) == [group |-> group, weight |-> Rat(weight, WeightUnit)]

\* node.data.vertices: the groups of each vertex (entry v + 1 is vertex v)
meshVertexArray ==
    << <<Element(0, 5), Element(1, 5)>>,
       <<Element(0, 2), Element(1, 6), Element(2, 4)>>,
       <<Element(2, 10)>>,
       <<Element(1, 0), Element(0, 3)>>,
       <<>>,
       <<Element(0, 10), Element(1, 10), Element(3, 5)>> >>

\* the loop over the groups of a vertex as a mutant: the test of the weight
\* is left out
RECURSIVE InfluenceLoopAnyWeight(_, _, _, _, _, _)
InfluenceLoopAnyWeight(groups, k, boneCount, totalWeight, indices, weights) ==
    IF k > Len(groups)
    THEN [boneCount |-> boneCount, totalWeight |-> totalWeight,
          boneIndexArray |-> indices, boneWeightArray |-> weights]
    ELSE LET boneIndex == groupRemap[groups[k].group + 1]
             boneWeight == groups[k].weight
         IN  IF boneIndex >= 0
             THEN InfluenceLoopAnyWeight(groups, k + 1, boneCount + 1,
                                         RatAdd(totalWeight, boneWeight),
                                         Append(indices, boneIndex),
                                         Append(weights, boneWeight))
             ELSE InfluenceLoopAnyWeight(groups, k + 1, boneCount, totalWeight, indices,
                                         weights)

\* the loop "for element in meshVertexArray[ev.vertexIndex].groups", from
\* element k on: boneCount, totalWeight and the two arrays
RECURSIVE InfluenceLoop(_, _, _, _, _, _)
InfluenceLoop(groups, k, boneCount, totalWeight, indices, weights) ==
    IF k > Len(groups)
    THEN [boneCount |-> boneCount, totalWeight |-> totalWeight,
          boneIndexArray |-> indices, boneWeightArray |-> weights]
    ELSE LET boneIndex == groupRemap[groups[k].group + 1]
             boneWeight == groups[k].weight
         IN  IF boneIndex >= 0 /\ boneWeight # <<0, 1>>
             THEN InfluenceLoop(groups, k + 1, boneCount + 1,
                                RatAdd(totalWeight, boneWeight),
                                Append(indices, boneIndex), Append(weights, boneWeight))
             ELSE InfluenceLoop(groups, k + 1, boneCount, totalWeight, indices, weights)

\* the positions normalised, as a mutant: range(boneCount)
NormalizeRangeFromStart(len, boneCount) == { i + 1 : i \in 0 .. (boneCount - 1) }

\* the positions of "for i in range(-boneCount, 0): boneWeightArray[i]" in an
\* array of length len; a negative index i is position len + i
NormalizeRange(len, boneCount) == { len + i + 1 : i \in (-boneCount) .. -1 }

\* Normalize as a mutant: every weight in the array is multiplied
NormalizeWholeArray(weights, boneCount, totalWeight) ==
    IF totalWeight # <<0, 1>>
    THEN [i \in 1 .. Len(weights) |-> RatMul(weights[i], RatInv(totalWeight))]
    ELSE weights

\* "if totalWeight != 0.0": the weights times 1.0 / totalWeight
Normalize(weights, boneCount, totalWeight) ==
    IF totalWeight # <<0, 1>>
    THEN [i \in 1 .. Len(weights) |->
            IF i \in NormalizeRange(Len(weights), boneCount)
            THEN RatMul(weights[i], RatInv(totalWeight)) ELSE weights[i]]
    ELSE weights

VertexIndices == 0 .. (Len(meshVertexArray) - 1)

InitSkin ==
    /\ UnifyIdle
    /\ CurveIdle
    /\ NodeIdle
    /\ WriteIdle
    /\ GeometryIdle
    /\ ExecuteIdle
    /\ BakeIdle
    /\ DeindexIdle
    /\ BucketIdle
    /\ FlushIdle
    /\ TrackIdle
    /\ IndentIdle
    /\ skinVertexArray \in SeqsUpTo(VertexIndices, MaxSkin)
    /\ boneCountArray = <<>>
    /\ boneIndexArray = <<>>
    /\ boneWeightArray = <<>>
    /\ sk = 0
    /\ spc = "loop"

\* one iteration of "for ev in exportVertexArray"
SkinStep ==
    /\ spc = "loop"
    /\ sk < Len(skinVertexArray)
    /\ LET r == InfluenceLoop(meshVertexArray[skinVertexArray[sk + 1] + 1], 1, 0, <<0, 1>>,
                              boneIndexArray, boneWeightArray)
       IN  /\ boneCountArray' = Append(boneCountArray, r.boneCount)
           /\ boneIndexArray' = r.boneIndexArray
           /\ boneWeightArray' = Normalize(r.boneWeightArray, r.boneCount, r.totalWeight)
    /\ sk' = sk + 1
    /\ UNCHANGED <<skinVertexArray, spc, otherThanSkin>>

\* the loop is over; the three arrays are written as they are
SkinWrite ==
    /\ spc = "loop"
    /\ sk = Len(skinVertexArray)
    /\ spc' = "done"
    /\ UNCHANGED <<skinVertexArray, boneCountArray, boneIndexArray, boneWeightArray, sk,
                   otherThanSkin>>

NextSkin == SkinStep \/ SkinWrite

SpecSkin == InitSkin /\ [][NextSkin]_vars

-----------------------------------------------------------------------------
(* write_float and the array writers.  self.file is the list of the data of *)
(* each self.file.write call.  A float is given by the fields of its        *)
(* 32-bit form (what struct.pack("<f", f) holds) and, when it is finite, by *)
(* its value in millionths.                                                 *)

Float(sign, exponent, mantissa, micro) ==
    [type |-> "float", sign |-> sign, exponent |-> exponent, mantissa |-> mantissa,
     micro |-> micro]

\* 0.0, 1.0, -2.0, 0.5, 1.5
FiniteFloats ==
    <<Float(0, 0, 0, 0), Float(0, 127, 0, 1000000), Float(1, 128, 0, -2000000),
      Float(0, 126, 0, 500000), Float(0, 127, 4194304, 1500000)>>

PosInfinity == Float(0, 255, 0, 0)
NegInfinity == Float(1, 255, 0, 0)
NaN == Float(0, 255, 4194304, 0)

NonFiniteFloats == {NaN, PosInfinity, NegInfinity}

isinf(f) == f.exponent = 255 /\ f.mantissa = 0
isnan(f) == f.exponent = 255 /\ f.mantissa # 0

Digit(d) == <<"0", "1", "2", "3", "4", "5", "6", "7", "8", "9",
              "a", "b", "c", "d", "e", "f">>[d + 1]

\* "{:.6f}".format(f) for a float that is a whole number of millionths
FormatFixed6(f) ==
    LET a == Abs(f.micro)
        frac == a % 1000000
    IN  (IF f.micro < 0 THEN "-" ELSE "") \o ToString(a \div 1000000) \o "."
        \o Digit(frac \div 100000) \o Digit((frac \div 10000) % 10)
        \o Digit((frac \div 1000) % 10) \o Digit((frac \div 100) % 10)
        \o Digit((frac \div 10) % 10) \o Digit(frac % 10)

\* struct.unpack("<I", struct.pack("<f", f))[0]: an int, as its four bytes,
\* most significant first
FloatBits(f) ==
    [type |-> "int",
     bytes |-> <<f.sign * 128 + f.exponent \div 2,
                 (f.exponent % 2) * 128 + f.mantissa \div 65536,
                 (f.mantissa \div 256) % 256,
                 f.mantissa % 256>>]

\* "0x{:08x}".format(x): the format code x is for integers; for a float
\* str.format raises ValueError
Format08x(x) ==
    IF x.type = "int"
    THEN [raised |-> FALSE,
          text |-> "0x" \o Digit(x.bytes[1] \div 16) \o Digit(x.bytes[1] % 16)
                        \o Digit(x.bytes[2] \div 16) \o Digit(x.bytes[2] % 16)
                        \o Digit(x.bytes[3] \div 16) \o Digit(x.bytes[3] % 16)
                        \o Digit(x.bytes[4] \div 16) \o Digit(x.bytes[4] % 16)]
    ELSE [raised |-> TRUE, text |-> ""]

float_to_hex(f) == Format08x(FloatBits(f))

\* what a writer does: the data it hands to self.file.write, and whether it
\* then raises
Wrote(data) == [raised |-> FALSE, data |-> data]
Raised(data) == [raised |-> TRUE, data |-> data]

\* one writer after another; an exception ends the sequence
Then(a, b) == IF a.raised THEN a ELSE [raised |-> b.raised, data |-> a.data \o b.data]

write_float_as_is(f) ==
    IF isinf(f) \/ isnan(f) THEN Wrote(<<"0.0">>) ELSE Wrote(<<FormatFixed6(f)>>)

\* in the branch for inf and nan, 0.0 is a float and the argument of
\* self.file.write is not computed
write_float_as_hex(f) ==
    IF isinf(f) \/ isnan(f)
    THEN IF Format08x(Float(0, 0, 0, 0)).raised THEN Raised(<<>>)
         ELSE Wrote(<<Format08x(Float(0, 0, 0, 0)).text>>)
    ELSE Wrote(<<float_to_hex(f).text>>)

\* WriteFloatMap[int(self.option_float_as_hex)](self, f)
write_float(f, hex) == IF hex THEN write_float_as_hex(f) ELSE write_float_as_is(f)

write_int(i) == Wrote(<<ToString(i)>>)

write(text) == Wrote(<<text>>)

indent_write(text, extra, newline, level) ==
    Wrote((IF newline THEN <<"\n">> ELSE <<>>)
          \o [i \in 1 .. (level + extra) |-> "\t"] \o <<text>>)

\* the end of full line i as a mutant: <= for <
LineEndOffByOne(i, count, width) ==
    IF i * width <= count - width THEN write(",\n") ELSE write("\n")

\* "if i * 64 < count - 64: write(',\n') else: write('\n')", for the line
\* width of each array writer
LineEnd(i, count, width) ==
    IF i * width < count - width THEN write(",\n") ELSE write("\n")

\* the writers rs[lo], ..., rs[hi], one after another
RECURSIVE ThenAll(_, _, _)
ThenAll(rs, lo, hi) ==
    IF lo > hi THEN Wrote(<<>>)
    ELSE IF lo = hi THEN rs[lo]
    ELSE Then(ThenAll(rs, lo, (lo + hi) \div 2), ThenAll(rs, (lo + hi) \div 2 + 1, hi))

\* "for j in range(n): <write element k>; self.write(b', '); k += 1", where
\* elems[k + 1] is what writing element k does
Separated(elems, k, n) ==
    ThenAll([j \in 1 .. n |-> Then(elems[k + j], write(", "))], 1, n)

\* one iteration of "for i in range(lineCount)"
FullLine(elems, i, inner, width, level) ==
    Then(indent_write("", 1, FALSE, level),
    Then(Separated(elems, i * (inner + 1), inner),
    Then(elems[i * (inner + 1) + inner + 1], LineEnd(i, Len(elems), width))))

\* "for i in range(lineCount)"
FullLines(elems, lineCount, inner, width, level) ==
    ThenAll([l \in 1 .. lineCount |-> FullLine(elems, l - 1, inner, width, level)],
            1, lineCount)

\* the body the five array writers share: lineCount = count >> shift, full
\* lines of inner + 1 elements, then the count & mask elements left
ChunkedArray(elems, shift, inner, width, mask, level) ==
    LET count == Len(elems)
        lineCount == count \div (2 ^ shift)
        left == count % (mask + 1)
        k == lineCount * (inner + 1)
    IN  Then(FullLines(elems, lineCount, inner, width, level),
             IF left # 0
             THEN Then(indent_write("", 1, FALSE, level),
                  Then(Separated(elems, k, left - 1),
                  Then(elems[k + left], write("\n"))))
             ELSE Wrote(<<>>))

write_int_array(valueArray, level) ==
    ChunkedArray([k \in 1 .. Len(valueArray) |-> write_int(valueArray[k])],
                 6, 63, 64, 63, level)

write_float_array(valueArray, hex, level) ==
    ChunkedArray([k \in 1 .. Len(valueArray) |-> write_float(valueArray[k], hex)],
                 4, 15, 16, 15, level)

write_vector_2d(vector, hex) ==
    Then(write("{"), Then(write_float(vector[1], hex), Then(write(", "),
    Then(write_float(vector[2], hex), write("}")))))

write_vector_3d(vector, hex) ==
    Then(write("{"), Then(write_float(vector[1], hex), Then(write(", "),
    Then(write_float(vector[2], hex), Then(write(", "),
    Then(write_float(vector[3], hex), write("}")))))))

write_vertex_array_2d(vertexArray, attrib, hex, level) ==
    ChunkedArray([k \in 1 .. Len(vertexArray) |-> write_vector_2d(vertexArray[k][attrib], hex)],
                 3, 7, 8, 7, level)

write_vertex_array_3d(vertexArray, attrib, hex, level) ==
    ChunkedArray([k \in 1 .. Len(vertexArray) |-> write_vector_3d(vertexArray[k][attrib], hex)],
                 3, 7, 8, 7, level)

\* table is the indexTable argument; indexTable[i] of the code is table[i + 1]
write_triangle(triangleIndex, table) ==
    LET i == triangleIndex * 3
    IN  Then(write("{"), Then(write_int(table[i + 1]), Then(write(", "),
        Then(write_int(table[i + 2]), Then(write(", "),
        Then(write_int(table[i + 3]), write("}")))))))

write_triangle_array(count, table, level) ==
    ChunkedArray([t \in 1 .. count |-> write_triangle(t - 1, table)],
                 4, 15, 16, 15, level)

FloatAt(k) == FiniteFloats[(k % Len(FiniteFloats)) + 1]

\* the arrays handed to the writers, by their length
IntValues(n) == [k \in 1 .. n |-> 3 * k + 1]

FloatValues(n) == [k \in 1 .. n |-> FloatAt(k)]

\* export vertices, as far as the vertex array writers read them
Vertices(n) ==
    [k \in 1 .. n |-> [position |-> <<FloatAt(k), FloatAt(k + 1), FloatAt(k + 3)>>,
                       texcoord0 |-> <<FloatAt(k + 2), FloatAt(k + 4)>>]]

\* an index table of n triangles
TriangleIndices(n) == [k \in 1 .. 3 * n |-> (7 * k) % 11]

\* the calls made: the function, its float argument or the length of its array
\* argument, and its attrib argument
Call(fn, f, n, attrib) == [fn |-> fn, f |-> f, n |-> n, attrib |-> attrib]

\* how many elements an array writer puts on a full line
LineWidth(fn) ==
    CASE fn = "write_int_array" -> 64
      [] fn = "write_float_array" -> 16
      [] fn = "write_vertex_array_2d" -> 8
      [] fn = "write_vertex_array_3d" -> 8
      [] fn = "write_triangle_array" -> 16

ArrayWriters == {"write_int_array", "write_float_array", "write_vertex_array_2d",
                 "write_vertex_array_3d", "write_triangle_array"}

Calls ==
    { Call("write_float", x, 0, "") : x \in NonFiniteFloats \cup {FloatAt(k) : k \in 0 .. 4} }
    \cup { c \in { Call(fn, FloatAt(0), n, attrib) :
                     fn \in ArrayWriters, n \in 0 .. (MaxLines * 64 + 1),
                     attrib \in {"", "texcoord0", "position"} } :
             /\ c.n <= MaxLines * LineWidth(c.fn) + 1
             /\ c.attrib = (CASE c.fn = "write_vertex_array_2d" -> "texcoord0"
                              [] c.fn = "write_vertex_array_3d" -> "position"
                              [] OTHER -> "") }

InitWrite ==
    /\ UnifyIdle
    /\ CurveIdle
    /\ NodeIdle
    /\ SkinIdle
    /\ GeometryIdle
    /\ ExecuteIdle
    /\ BakeIdle
    /\ DeindexIdle
    /\ BucketIdle
    /\ FlushIdle
    /\ TrackIdle
    /\ IndentIdle
    /\ writeCall \in Calls
    /\ option_float_as_hex \in BOOLEAN
    /\ indentLevel \in {0, 2}
    /\ file = <<>>
    /\ wpc = "call"

\* the call ends: what it wrote is in the buffer, and it returned or raised
Ends(r) ==
    /\ file' = file \o r.data
    /\ wpc' = IF r.raised THEN "raised" ELSE "returned"
    /\ UNCHANGED <<writeCall, option_float_as_hex, indentLevel, otherThanWrite>>

WriteFloat ==
    /\ wpc = "call"
    /\ writeCall.fn = "write_float"
    /\ Ends(write_float(writeCall.f, option_float_as_hex))

WriteIntArray ==
    /\ wpc = "call"
    /\ writeCall.fn = "write_int_array"
    /\ Ends(write_int_array(IntValues(writeCall.n), indentLevel))

WriteFloatArray ==
    /\ wpc = "call"
    /\ writeCall.fn = "write_float_array"
    /\ Ends(write_float_array(FloatValues(writeCall.n), option_float_as_hex, indentLevel))

WriteVertexArray2d ==
    /\ wpc = "call"
    /\ writeCall.fn = "write_vertex_array_2d"
    /\ Ends(write_vertex_array_2d(Vertices(writeCall.n), writeCall.attrib, option_float_as_hex,
                                  indentLevel))

WriteVertexArray3d ==
    /\ wpc = "call"
    /\ writeCall.fn = "write_vertex_array_3d"
    /\ Ends(write_vertex_array_3d(Vertices(writeCall.n), writeCall.attrib, option_float_as_hex,
                                  indentLevel))

WriteTriangleArray ==
    /\ wpc = "call"
    /\ writeCall.fn = "write_triangle_array"
    /\ Ends(write_triangle_array(writeCall.n, TriangleIndices(writeCall.n), indentLevel))

NextWrite ==
    \/ WriteFloat
    \/ WriteIntArray
    \/ WriteFloatArray
    \/ WriteVertexArray2d
    \/ WriteVertexArray3d
    \/ WriteTriangleArray

SpecWrite == InitWrite /\ [][NextWrite]_vars

-----------------------------------------------------------------------------
(* ExportGeometry: the index arrays *)

\* "for i in range(len(materialTable)): if index > maxMaterialIndex: ..."
MaxMaterialIndexOf(table) ==
    IF table = <<>> THEN 0
    ELSE CHOOSE x \in {0} \cup {table[i] : i \in 1 .. Len(table)} :
             \A i \in 1 .. Len(table) : table[i] <= x

\* materialTriangleCount[m]
materialTriangleCount(table, m) == Cardinality({i \in 1 .. Len(table) : table[i] = m})

\* the faces a material index table is built from, as a mutant: every face
FacesOfAny(table, m) == [i \in 1 .. Len(table) |-> i]

\* the faces i (counted from 1) with materialTable[i] == m, in order
FacesOf(table, m) ==
    SelectSeq([i \in 1 .. Len(table) |-> i], LAMBDA i : table[i] = m)

\* materialIndexTable: the three entries of indexTable of each face of material m
materialIndexTable(table, indices, m) ==
    LET faces == FacesOf(table, m)
    IN  [k \in 1 .. 3 * Len(faces) |->
            indices[3 * (faces[(k - 1) \div 3 + 1] - 1) + ((k - 1) % 3) + 1]]

\* an IndexArray structure: its material attribute (-1 when it has none), the
\* number in its comment, and the triangles write_triangle_array(count, table)
\* writes
IndexArray(material, count, table) ==
    [material |-> material, count |-> count,
     triangles |-> [t \in 1 .. count |-> <<table[3 * t - 2], table[3 * t - 1], table[3 * t]>>]]

InitGeometry ==
    /\ UnifyIdle
    /\ CurveIdle
    /\ NodeIdle
    /\ SkinIdle
    /\ WriteIdle
    /\ ExecuteIdle
    /\ BakeIdle
    /\ DeindexIdle
    /\ BucketIdle
    /\ FlushIdle
    /\ TrackIdle
    /\ IndentIdle
    /\ materialTable \in SeqsUpTo(0 .. MaxMaterial, MaxTriangles)
    /\ geometryIndexTable = TriangleIndices(Len(materialTable))
    /\ maxMaterialIndex = 0
    /\ gm = 0
    /\ indexArrays = <<>>
    /\ gpc = "start"

\* there is only one material: a single index array
IndexArraySingle ==
    /\ gpc = "start"
    /\ MaxMaterialIndexOf(materialTable) = 0
    /\ maxMaterialIndex' = 0
    /\ indexArrays' = Append(indexArrays,
                             IndexArray(-1, Len(materialTable), geometryIndexTable))
    /\ gpc' = "done"
    /\ UNCHANGED <<materialTable, geometryIndexTable, gm, otherThanGeometry>>

\* there are several material indexes: the loop over them begins
IndexArraysBegin ==
    /\ gpc = "start"
    /\ MaxMaterialIndexOf(materialTable) # 0
    /\ maxMaterialIndex' = MaxMaterialIndexOf(materialTable)
    /\ gm' = 0
    /\ gpc' = "loop"
    /\ UNCHANGED <<materialTable, geometryIndexTable, indexArrays, otherThanGeometry>>

\* one iteration of "for m in range(maxMaterialIndex + 1)"
IndexArrayStep ==
    /\ gpc = "loop"
    /\ gm <= maxMaterialIndex
    /\ indexArrays' =
          IF materialTriangleCount(materialTable, gm) # 0
          THEN Append(indexArrays,
                      IndexArray(gm, materialTriangleCount(materialTable, gm),
                                 materialIndexTable(materialTable, geometryIndexTable, gm)))
          ELSE indexArrays
    /\ gm' = gm + 1
    /\ UNCHANGED <<materialTable, geometryIndexTable, maxMaterialIndex, gpc,
                   otherThanGeometry>>

IndexArraysEnd ==
    /\ gpc = "loop"
    /\ gm > maxMaterialIndex
    /\ gpc' = "done"
    /\ UNCHANGED <<materialTable, geometryIndexTable, maxMaterialIndex, gm, indexArrays,
                   otherThanGeometry>>

NextGeometry == IndexArraySingle \/ IndexArraysBegin \/ IndexArrayStep \/ IndexArraysEnd

SpecGeometry == InitGeometry /\ [][NextGeometry]_vars

-----------------------------------------------------------------------------
(* execute: the node registry, the document in memory and the output file   *)

NODETYPE_NODE == 0
NODETYPE_BONE == 1
NODETYPE_GEO == 2
NODETYPE_LIGHT == 3
NODETYPE_CAMERA == 4

\* an object of the scene: parent is the place of its parent in scene.objects
\* (0 when it has none), data the name of its datablock (the skeleton of an
\* ARMATURE object, the mesh of a MESH object; "" for None), armature the
\* place of the object find_armature() gives (0 for None).  The object is
\* parented to its parent as a whole, has no material slot and, as a LIGHT,
\* is a sun, unless OnBone, WithMaterial or OfLightType say otherwise.
Object(name, type, parent, polygons, data, select, armature) ==
    [name |-> name, type |-> type, parent |-> parent, polygons |-> polygons,
     data |-> data, select |-> select, armature |-> armature,
     parent_type |-> "OBJECT", parent_bone |-> "", material |-> "",
     light_type |-> "SUN"]

\* node.parent_type == "BONE", node.parent_bone the name of the bone
OnBone(ob, bone) == [ob EXCEPT !.parent_type = "BONE", !.parent_bone = bone]

\* node.material_slots[0].material
WithMaterial(ob, material) == [ob EXCEPT !.material = material]

\* object.type of the light datablock
OfLightType(ob, light_type) == [ob EXCEPT !.light_type = light_type]

\* a bone of a skeleton: data is the skeleton it belongs to, parent its
\* place in Bones, 0 for None
Bone(data, name, parent, select) ==
    [data |-> data, name |-> name, parent |-> parent, select |-> select]

\* the bones of the armature datablocks of the scenes, skeleton by skeleton:
\* both skeletons have a bone named hip
Bones ==
    << Bone("skeleton", "hip", 0, TRUE), Bone("skeleton", "leg", 1, TRUE),
       Bone("skeleton", "tail", 0, FALSE), Bone("skeleton.001", "hip", 0, TRUE) >>

\* scene.objects of the scenes execute is run on
SceneObjects ==
    { <<>>,
      <<Object("plane", "MESH", 0, 0, "Plane", TRUE, 0)>>,
      <<Object("cube", "MESH", 0, 2, "Cube", TRUE, 0)>>,
      <<Object("root", "EMPTY", 0, 0, "", FALSE, 0),
        WithMaterial(Object("cube", "MESH", 1, 2, "Cube", TRUE, 0), "Metal"),
        Object("cam", "CAMERA", 1, 0, "Camera", TRUE, 0),
        Object("sun", "LIGHT", 0, 0, "Sun", TRUE, 0),
        OfLightType(Object("area", "LIGHT", 4, 0, "Area", FALSE, 0), "AREA")>>,
      <<Object("leg", "MESH", 0, 2, "Leg mesh", TRUE, 0),
        Object("rig", "ARMATURE", 0, 0, "skeleton", TRUE, 0),
        Object("body", "MESH", 2, 2, "Body", TRUE, 2)>>,
      <<Object("rig", "ARMATURE", 0, 0, "", TRUE, 0),
        Object("cube", "MESH", 1, 2, "Cube", TRUE, 0)>>,
      <<Object("rig", "ARMATURE", 0, 0, "skeleton", TRUE, 0),
        Object("rig.001", "ARMATURE", 0, 0, "skeleton", TRUE, 0),
        Object("cube", "MESH", 0, 2, "Cube", TRUE, 0)>>,
      <<Object("rig", "ARMATURE", 0, 0, "skeleton", FALSE, 0),
        OnBone(Object("hat", "MESH", 1, 2, "Cube", TRUE, 0), "leg")>>,
      <<Object("rig", "ARMATURE", 0, 0, "skeleton", TRUE, 0),
        Object("rig.001", "ARMATURE", 0, 0, "skeleton.001", TRUE, 0),
        OnBone(Object("hat", "MESH", 1, 2, "Cube", TRUE, 0), "hip")>>,
      <<WithMaterial(Object("cube", "MESH", 0, 2, "Cube.001", TRUE, 0), "Metal"),
        WithMaterial(Object("crate", "MESH", 0, 2, "cube_001", TRUE, 0), "Wood"),
        WithMaterial(Object("box", "MESH", 0, 2, "Cube.001", TRUE, 0), "Metal")>>,
      <<Object("empty", "EMPTY", 0, 0, "", TRUE, 0),
        WithMaterial(Object("cube", "MESH", 0, 2, "node1", TRUE, 0), "Metal"),
        WithMaterial(Object("ball", "MESH", 0, 2, "material1", TRUE, 0), "Metal")>> }

\* the steps of execute in which a statement may raise (write_float of a
\* float that is not finite when option_float_as_hex is set, for one)
RaisingSteps == {"ExportMetrics", "export_node", "ExportObjects", "export_materials"}

Scenes ==
    { [objects |-> obs, option_export_selection |-> sel,
       option_export_materials |-> mat, raises |-> r] :
        obs \in SceneObjects, sel \in BOOLEAN, mat \in BOOLEAN,
        r \in RaisingSteps \cup {"none"} }

\* the keys of self.nodeArray: an object, by its place in scene.objects, or a
\* bone, by its place in Bones; equal for the same object or bone
ObjectKey(i) == [kind |-> "object", at |-> i]
BoneKey(b) == [kind |-> "bone", at |-> b]

KeyName(sc, key) ==
    IF key.kind = "object" THEN sc.objects[key.at].name ELSE Bones[key.at].name

\* "node" + str(len(self.nodeArray) + 1)
StructName(arr) == "node" \o ToString(Len(arr) + 1)

\* self.nodeArray[key] = value: a dict keeps the place of a key it already has
DictSet(arr, key, value) ==
    IF \E p \in 1 .. Len(arr) : arr[p].key = key
    THEN [p \in 1 .. Len(arr) |->
            IF arr[p].key = key THEN [key |-> key, value |-> value] ELSE arr[p]]
    ELSE Append(arr, [key |-> key, value |-> value])

DictGet(arr, key) == { arr[p].value : p \in { q \in 1 .. Len(arr) : arr[q].key = key } }

get_node_type(ob) ==
    IF ob.type = "MESH" /\ ob.polygons # 0 THEN NODETYPE_GEO
    ELSE IF ob.type = "LIGHT" /\ ob.light_type \in {"SUN", "POINT", "SPOT"}
         THEN NODETYPE_LIGHT
    ELSE IF ob.type = "CAMERA" THEN NODETYPE_CAMERA
    ELSE NODETYPE_NODE

\* bone.children, and the bones of a skeleton without parent, in order
BoneChildren(b) == SelectSeq([c \in 1 .. Len(Bones) |-> c], LAMBDA c : Bones[c].parent = b)

RootBones(data) ==
    SelectSeq([c \in 1 .. Len(Bones) |-> c],
              LAMBDA c : Bones[c].data = data /\ Bones[c].parent = 0)

\* node.children, in order
Children(sc, i) ==
    SelectSeq([c \in 1 .. Len(sc.objects) |-> c], LAMBDA c : sc.objects[c].parent = i)

RECURSIVE process_bone(_, _, _)
RECURSIVE ProcessBones(_, _, _)
\* "for child in bone.children: self.process_bone(child)"
ProcessBones(sc, bones, arr) ==
    IF bones = <<>> THEN arr
    ELSE ProcessBones(sc, Tail(bones), process_bone(sc, Head(bones), arr))

process_bone(sc, b, arr) ==
    ProcessBones(sc, BoneChildren(b),
                 IF ~sc.option_export_selection \/ Bones[b].select
                 THEN DictSet(arr, BoneKey(b),
                              [nodeType |-> NODETYPE_BONE, structName |-> StructName(arr)])
                 ELSE arr)

RECURSIVE process_node(_, _, _)
RECURSIVE ProcessNodes(_, _, _)
\* "for child in node.children: self.process_node(child)"
ProcessNodes(sc, nodes, arr) ==
    IF nodes = <<>> THEN arr
    ELSE ProcessNodes(sc, Tail(nodes), process_node(sc, Head(nodes), arr))

process_node(sc, i, arr) ==
    LET n == sc.objects[i]
        registered == DictSet(arr, ObjectKey(i),
                              [nodeType |-> get_node_type(n), structName |-> StructName(arr)])
    IN  ProcessNodes(sc, Children(sc, i),
                     IF ~sc.option_export_selection \/ n.select
                     THEN IF n.type = "ARMATURE" /\ n.data # ""
                          THEN ProcessBones(sc, RootBones(n.data), registered)
                          ELSE registered
                     ELSE arr)

\* self.boneParentArray.get(name): the registered objects parented to a bone
\* of that name, in the order process_node met them; the armature the bone
\* belongs to is not part of the key
boneParentArray(sc, arr, name) ==
    LET onBone == SelectSeq(arr, LAMBDA e :
                      /\ e.key.kind = "object"
                      /\ sc.objects[e.key.at].parent_type = "BONE"
                      /\ sc.objects[e.key.at].parent_bone = name)
    IN  [p \in 1 .. Len(onBone) |-> onBone[p].key.at]

\* find_node(name): the place of the first entry of that name, 0 for None
find_node(sc, arr, name) ==
    LET named == { p \in 1 .. Len(arr) : KeyName(sc, arr[p].key) = name }
    IN  IF named = {} THEN 0 ELSE CHOOSE p \in named : \A q \in named : p <= q

\* the entries named as the bones of a skeleton become bone nodes
ForceBones(sc, arr, data) ==
    LET boneRefs == { find_node(sc, arr, Bones[b].name) :
                        b \in { c \in 1 .. Len(Bones) : Bones[c].data = data } }
    IN  [p \in 1 .. Len(arr) |->
            IF p \in boneRefs THEN [arr[p] EXCEPT !.value.nodeType = NODETYPE_BONE]
            ELSE arr[p]]

RECURSIVE SkinnedMeshesFrom(_, _, _)
\* "for node_ref in self.nodeArray.items()" from the p-th entry on: an entry
\* is tested with the type the earlier rounds left it
SkinnedMeshesFrom(sc, arr, p) ==
    IF p > Len(arr) THEN arr
    ELSE SkinnedMeshesFrom(sc,
            IF /\ arr[p].value.nodeType = NODETYPE_GEO
               /\ arr[p].key.kind = "object"
               /\ sc.objects[arr[p].key.at].armature # 0
            THEN ForceBones(sc, arr, sc.objects[sc.objects[arr[p].key.at].armature].data)
            ELSE arr,
            p + 1)

\* process_skinned_meshes: every entry named as a bone of the armature of a
\* geometry node becomes a bone node
process_skinned_meshes(sc, arr) == SkinnedMeshesFrom(sc, arr, 1)

\* a part of the document: its kind and the structure name in it
NoKey == [kind |-> "none", at |-> 0]

Part(kind, name) == [kind |-> kind, name |-> name, key |-> NoKey]

\* a node structure: key is the object or bone it is written for
NodePart(name, key) == [kind |-> "node", name |-> name, key |-> key]

RECURSIVE export_bone(_, _, _)
RECURSIVE ExportBones(_, _, _)
RECURSIVE export_node(_, _, _)
RECURSIVE ExportNodes(_, _, _)
ExportBones(sc, bones, arr) ==
    IF bones = <<>> THEN <<>>
    ELSE export_bone(sc, Head(bones), arr) \o ExportBones(sc, Tail(bones), arr)

\* the node structures export_bone writes: the bone's own when it is
\* registered, those of its children, those of the objects parented to a
\* bone of its name
export_bone(sc, b, arr) ==
    [r \in 1 .. Cardinality(DictGet(arr, BoneKey(b))) |->
        NodePart((CHOOSE v \in DictGet(arr, BoneKey(b)) : TRUE).structName, BoneKey(b))]
    \o ExportBones(sc, BoneChildren(b), arr)
    \o ExportNodes(sc, boneParentArray(sc, arr, Bones[b].name), arr)

ExportNodes(sc, nodes, arr) ==
    IF nodes = <<>> THEN <<>>
    ELSE export_node(sc, Head(nodes), arr) \o ExportNodes(sc, Tail(nodes), arr)

\* the node structures export_node writes: the bones of an armature only
\* when the armature is registered, the children other than those parented
\* to a bone
export_node(sc, i, arr) ==
    LET refs == DictGet(arr, ObjectKey(i))
        subnodes == SelectSeq(Children(sc, i),
                              LAMBDA c : sc.objects[c].parent_type # "BONE")
    IN  (IF refs # {}
         THEN <<NodePart((CHOOSE v \in refs : TRUE).structName, ObjectKey(i))>>
              \o (IF sc.objects[i].type = "ARMATURE" /\ sc.objects[i].data # ""
                  THEN ExportBones(sc, RootBones(sc.objects[i].data), arr) ELSE <<>>)
         ELSE <<>>)
        \o ExportNodes(sc, subnodes, arr)

\* the characters of the names of the mesh datablocks
NameChars(data) ==
    CASE data = "Cube" -> <<"C", "u", "b", "e">>
      [] data = "Plane" -> <<"P", "l", "a", "n", "e">>
      [] data = "Body" -> <<"B", "o", "d", "y">>
      [] data = "Leg mesh" -> <<"L", "e", "g", " ", "m", "e", "s", "h">>
      [] data = "Cube.001" -> <<"C", "u", "b", "e", ".", "0", "0", "1">>
      [] data = "cube_001" -> <<"c", "u", "b", "e", "_", "0", "0", "1">>
      [] data = "node1" -> <<"n", "o", "d", "e", "1">>
      [] data = "material1" -> <<"m", "a", "t", "e", "r", "i", "a", "l", "1">>
      [] OTHER -> <<>>

UpperCase ==
    <<"A", "B", "C", "D", "E", "F", "G", "H", "I", "J", "K", "L", "M",
      "N", "O", "P", "Q", "R", "S", "T", "U", "V", "W", "X", "Y", "Z">>

LowerCase ==
    <<"a", "b", "c", "d", "e", "f", "g", "h", "i", "j", "k", "l", "m",
      "n", "o", "p", "q", "r", "s", "t", "u", "v", "w", "x", "y", "z">>

\* str.replace(old, new) and str.lower() on one character
Replace(c, old, new) == IF c = old THEN new ELSE c

Lower(c) ==
    IF \E k \in 1 .. Len(UpperCase) : UpperCase[k] = c
    THEN LowerCase[CHOOSE k \in 1 .. Len(UpperCase) : UpperCase[k] = c]
    ELSE c

RECURSIVE JoinChars(_)
JoinChars(chars) == IF chars = <<>> THEN "" ELSE Head(chars) \o JoinChars(Tail(chars))

\* geomName = object.name.replace(" ", "_"); geomName.replace(".", "_").lower()
GeomName(data) ==
    JoinChars([k \in 1 .. Len(NameChars(data)) |->
                  Lower(Replace(Replace(NameChars(data)[k], " ", "_"), ".", "_"))])

RECURSIVE Distinct(_)
\* the keys of a dict filled in the order of a sequence
Distinct(s) ==
    IF s = <<>> THEN <<>>
    ELSE LET front == Distinct(SubSeq(s, 1, Len(s) - 1))
         IN  IF \E p \in 1 .. Len(front) : front[p] = s[Len(s)] THEN front
             ELSE Append(front, s[Len(s)])

\* the objects the node structures written so far are of
NodeObjects(sc, arr, buf, nodeType) ==
    LET written == SelectSeq(buf, LAMBDA part :
                      /\ part.kind = "node"
                      /\ part.key.kind = "object"
                      /\ \E v \in DictGet(arr, part.key) : v.nodeType = nodeType)
    IN  [p \in 1 .. Len(written) |-> sc.objects[written[p].key.at]]

\* the keys of self.geometryArray, self.lightArray, self.cameraArray and
\* self.materialArray after the export_node loop: the datablocks the written
\* nodes refer to, in the order they were first met
geometryArray(sc, arr, buf) ==
    LET nodes == NodeObjects(sc, arr, buf, NODETYPE_GEO)
    IN  Distinct([p \in 1 .. Len(nodes) |-> nodes[p].data])

lightArray(sc, arr, buf) ==
    LET nodes == NodeObjects(sc, arr, buf, NODETYPE_LIGHT)
    IN  Distinct([p \in 1 .. Len(nodes) |-> nodes[p].data])

cameraArray(sc, arr, buf) ==
    LET nodes == NodeObjects(sc, arr, buf, NODETYPE_CAMERA)
    IN  Distinct([p \in 1 .. Len(nodes) |-> nodes[p].data])

materialArray(sc, arr, buf) ==
    LET nodes == SelectSeq(NodeObjects(sc, arr, buf, NODETYPE_GEO),
                           LAMBDA ob : sc.option_export_materials /\ ob.material # "")
    IN  Distinct([p \in 1 .. Len(nodes) |-> nodes[p].material])

\* the object structures ExportObjects writes: one GeometryObject,
\* LightObject and CameraObject for each geometry, light and camera the
\* exported nodes refer to, under the name export_node gave it
ExportObjects(sc, arr, buf) ==
    [p \in 1 .. Len(geometryArray(sc, arr, buf)) |->
        Part("GeometryObject", GeomName(geometryArray(sc, arr, buf)[p]))]
    \o [p \in 1 .. Len(lightArray(sc, arr, buf)) |->
        Part("LightObject", "light" \o ToString(p))]
    \o [p \in 1 .. Len(cameraArray(sc, arr, buf)) |->
        Part("CameraObject", "camera" \o ToString(p))]

\* the Material structures export_materials writes
export_materials(sc, arr, buf) ==
    IF ~sc.option_export_materials THEN <<>>
    ELSE [p \in 1 .. Len(materialArray(sc, arr, buf)) |->
            Part("Material", "material" \o ToString(p))]

\* WriteBuffer.write: the data goes to the end of the buffer in memory
WriteBufferWrite(buf, parts) == buf \o parts

\* what a copy of the buffer from its current position gives when the
\* position is left at the end of the data
write_to_file_unrewound(buf) == <<>>

\* WriteBuffer.write_to_file: seek(0), then the whole buffer is copied
write_to_file(buf) == buf

Roots(sc) == { i \in 1 .. Len(sc.objects) : sc.objects[i].parent = 0 }

InitExecute ==
    /\ UnifyIdle
    /\ CurveIdle
    /\ NodeIdle
    /\ SkinIdle
    /\ WriteIdle
    /\ GeometryIdle
    /\ BakeIdle
    /\ DeindexIdle
    /\ BucketIdle
    /\ FlushIdle
    /\ TrackIdle
    /\ IndentIdle
    /\ scene \in Scenes
    /\ nodeArray = <<>>
    /\ er = 0
    /\ buffer = <<>>
    /\ opened = 0
    /\ disk = <<>>
    /\ result = ""
    /\ epc = "start"

\* a statement of the step raises: execute ends there, its caller gets the
\* exception, nothing after the statement runs
ExecuteRaises ==
    /\ result' = "ValueError"
    /\ epc' = "raised"
    /\ UNCHANGED <<scene, nodeArray, er, buffer, opened, disk>>

\* self.file = WriteBuffer() ... self.ExportMetrics(scene)
ExecuteMetrics ==
    /\ epc = "start"
    /\ IF scene.raises = "ExportMetrics"
       THEN ExecuteRaises
       ELSE /\ buffer' = WriteBufferWrite(<<>>, <<Part("metrics", "")>>)
            /\ nodeArray' = <<>>
            /\ er' = 1
            /\ epc' = "process"
            /\ UNCHANGED <<scene, opened, disk, result>>
    /\ UNCHANGED otherThanExecute

\* for object in scene.objects: if not object.parent: self.process_node(object)
ExecuteProcessNode ==
    /\ epc = "process"
    /\ er <= Len(scene.objects)
    /\ nodeArray' = IF er \in Roots(scene) THEN process_node(scene, er, nodeArray)
                    ELSE nodeArray
    /\ er' = er + 1
    /\ UNCHANGED <<scene, buffer, opened, disk, result, epc>>
    /\ UNCHANGED otherThanExecute

\* self.process_skinned_meshes()
ExecuteSkinnedMeshes ==
    /\ epc = "process"
    /\ er > Len(scene.objects)
    /\ nodeArray' = process_skinned_meshes(scene, nodeArray)
    /\ er' = 1
    /\ epc' = "export"
    /\ UNCHANGED <<scene, buffer, opened, disk, result>>
    /\ UNCHANGED otherThanExecute

\* for object in scene.objects: if not object.parent: self.export_node(object, scene)
ExecuteExportNode ==
    /\ epc = "export"
    /\ er <= Len(scene.objects)
    /\ IF scene.raises = "export_node" /\ er \in Roots(scene)
       THEN ExecuteRaises
       ELSE /\ buffer' = IF er \in Roots(scene)
                         THEN WriteBufferWrite(buffer, export_node(scene, er, nodeArray))
                         ELSE buffer
            /\ er' = er + 1
            /\ UNCHANGED <<scene, nodeArray, opened, disk, result, epc>>
    /\ UNCHANGED otherThanExecute

\* self.ExportObjects(scene)
ExecuteExportObjects ==
    /\ epc = "export"
    /\ er > Len(scene.objects)
    /\ IF scene.raises = "ExportObjects"
       THEN ExecuteRaises
       ELSE /\ buffer' = WriteBufferWrite(buffer, ExportObjects(scene, nodeArray, buffer))
            /\ epc' = "materials"
            /\ UNCHANGED <<scene, nodeArray, er, opened, disk, result>>
    /\ UNCHANGED otherThanExecute

\* self.export_materials()
ExecuteExportMaterials ==
    /\ epc = "materials"
    /\ IF scene.raises = "export_materials"
       THEN ExecuteRaises
       ELSE /\ buffer' = WriteBufferWrite(buffer, export_materials(scene, nodeArray, buffer))
            /\ epc' = "write"
            /\ UNCHANGED <<scene, nodeArray, er, opened, disk, result>>
    /\ UNCHANGED otherThanExecute

\* self.file.write_to_file(self.filepath); return {"FINISHED"}
ExecuteWriteToFile ==
    /\ epc = "write"
    /\ opened' = opened + 1
    /\ disk' = write_to_file(buffer)
    /\ result' = "FINISHED"
    /\ epc' = "finished"
    /\ UNCHANGED <<scene, nodeArray, er, buffer>>
    /\ UNCHANGED otherThanExecute

NextExecute ==
    \/ ExecuteMetrics
    \/ ExecuteProcessNode
    \/ ExecuteSkinnedMeshes
    \/ ExecuteExportNode
    \/ ExecuteExportObjects
    \/ ExecuteExportMaterials
    \/ ExecuteWriteToFile

SpecExecute == InitExecute /\ [][NextExecute]_vars

-----------------------------------------------------------------------------
(* The sampled animation operations: ExportNodeSampledAnimation,           *)
(* ExportBoneSampledAnimation, ExportMorphWeightSampledAnimationTrack       *)

\* what is baked: the operation, the frame from which the subject is displaced
\* (its morph weight raised), and for a bone its parent: none, one whose matrix
\* is the identity, or one whose matrix is singular
BakeSubjects ==
    { [op |-> op, moveFrame |-> mf, parent |-> pa] :
        op \in {"node", "bone", "morph"}, mf \in 0 .. (MaxFrames + 2),
        pa \in {"none", "identity", "singular"} }

\* node.matrix_local, poseBone.matrix with the scene at a frame
SubjectMatrix(b, frame) == MatrixLocal(b, frame)

\* what the Value block holds for one frame: the matrix of the node; for a bone
\* parent.matrix.inverted() @ poseBone.matrix when the parent's determinant is
\* above EPSILON (the parent's matrix is the identity), else poseBone.matrix;
\* block.value of a morph target
Sample(b, frame) ==
    IF b.op = "morph" THEN <<IF frame >= b.moveFrame THEN ONE ELSE 0>>
    ELSE SubjectMatrix(b, frame)

\* the floats written into "Key {float {" of the Time block: the loop of
\* ExportNodeSampledAnimation writes ", " and no float
TimeKeys(b, begin, end) ==
    (IF b.op = "node" THEN <<>>
     ELSE [i \in 1 .. (end - begin) |-> ((begin + i - 1) - begin) * frameTime])
    \o <<end * frameTime>>

InitBake ==
    /\ UnifyIdle
    /\ CurveIdle
    /\ NodeIdle
    /\ SkinIdle
    /\ WriteIdle
    /\ GeometryIdle
    /\ ExecuteIdle
    /\ DeindexIdle
    /\ BucketIdle
    /\ FlushIdle
    /\ TrackIdle
    /\ IndentIdle
    /\ bake = <<>>
    /\ frame_start \in 0 .. 1
    /\ frame_end \in frame_start .. (frame_start + MaxFrames)
    /\ frame_current \in {0, 2}
    /\ frame_subframe \in {0, 500}
    /\ originalFrame = <<frame_current, frame_subframe>>
    /\ entryFrame = <<>>
    /\ animationFlag = FALSE
    /\ bi = 0
    /\ baked = <<>>
    /\ bcount = 0
    /\ bpc = "ready"

\* scene.frame_set as a mutant: the subframe given is dropped
frame_set_whole(frame, subframe) ==
    /\ frame_current' = frame
    /\ frame_subframe' = 0

\* scene.frame_set(frame, subframe=subframe)
frame_set(frame, subframe) ==
    /\ frame_current' = frame
    /\ frame_subframe' = subframe

\* the entry of an operation: currentFrame, currentSubframe, animationFlag, m1
BakeBegin ==
    /\ bpc = "ready"
    /\ bcount < MaxOps
    /\ \E b \in BakeSubjects :
          /\ b.op # "bone" => b.parent = "none"
          /\ b.moveFrame <= frame_end + 1
          /\ bake' = b
          /\ bpc' = IF b.op = "morph" THEN "time" ELSE "test"
    /\ entryFrame' = <<frame_current, frame_subframe>>
    /\ animationFlag' = FALSE
    /\ bi' = frame_start
    /\ baked' = [time |-> <<>>, value |-> <<>>]
    /\ UNCHANGED <<frame_start, frame_end, frame_current, frame_subframe, originalFrame,
                   bcount, otherThanBake>>

\* one iteration of "for i in range(self.beginFrame, self.endFrame)" of the test
BakeTest ==
    /\ bpc = "test"
    /\ bi < frame_end
    /\ frame_set(bi, 0)
    /\ IF MatricesDifferent(SubjectMatrix(bake, entryFrame[1]), SubjectMatrix(bake, bi))
       THEN /\ animationFlag' = TRUE
            /\ bpc' = "time"
            /\ bi' = bi
       ELSE /\ bi' = bi + 1
            /\ UNCHANGED <<animationFlag, bpc>>
    /\ UNCHANGED <<bake, frame_start, frame_end, originalFrame, entryFrame, baked, bcount,
                   otherThanBake>>

\* the test loop has run to its end: "if animationFlag" is false
BakeTestEnd ==
    /\ bpc = "test"
    /\ bi >= frame_end
    /\ bpc' = "restore"
    /\ UNCHANGED <<bake, frame_start, frame_end, frame_current, frame_subframe,
                   originalFrame, entryFrame, animationFlag, bi, baked, bcount,
                   otherThanBake>>

\* the Time block
BakeTime ==
    /\ bpc = "time"
    /\ baked' = [baked EXCEPT !.time = TimeKeys(bake, frame_start, frame_end)]
    /\ bi' = frame_start
    /\ bpc' = "value"
    /\ UNCHANGED <<bake, frame_start, frame_end, frame_current, frame_subframe,
                   originalFrame, entryFrame, animationFlag, bcount, otherThanBake>>

\* one iteration of the loop of the Value block
BakeValue ==
    /\ bpc = "value"
    /\ bi < frame_end
    /\ frame_set(bi, 0)
    /\ baked' = [baked EXCEPT !.value = Append(@, Sample(bake, bi))]
    /\ bi' = bi + 1
    /\ UNCHANGED <<bake, frame_start, frame_end, originalFrame, entryFrame, animationFlag,
                   bcount, bpc, otherThanBake>>

\* scene.frame_set(self.endFrame) and the last entry of the Value block
BakeValueLast ==
    /\ bpc = "value"
    /\ bi >= frame_end
    /\ frame_set(frame_end, 0)
    /\ baked' = [baked EXCEPT !.value = Append(@, Sample(bake, frame_end))]
    /\ bpc' = "restore"
    /\ UNCHANGED <<bake, frame_start, frame_end, originalFrame, entryFrame, animationFlag,
                   bi, bcount, otherThanBake>>

\* scene.frame_set(currentFrame, subframe=currentSubframe), and the return
BakeRestore ==
    /\ bpc = "restore"
    /\ frame_set(entryFrame[1], entryFrame[2])
    /\ bcount' = bcount + 1
    /\ bpc' = "ready"
    /\ UNCHANGED <<bake, frame_start, frame_end, originalFrame, entryFrame, animationFlag,
                   bi, baked, otherThanBake>>

NextBake ==
    \/ BakeBegin
    \/ BakeTest
    \/ BakeTestEnd
    \/ BakeTime
    \/ BakeValue
    \/ BakeValueLast
    \/ BakeRestore

SpecBake == InitBake /\ [][NextBake]_vars

-----------------------------------------------------------------------------
(* deindex_mesh: the color of the ExportVertex records                       *)

\* the colors of a color layer (r, g, b, a), 1.0 being ONE
ColorPool == { <<ONE, ONE, ONE, ONE>>, <<0, ONE \div 2, ONE \div 4, ONE>>,
               <<ONE \div 2, 0, ONE, ONE>> }

\* mesh.loop_triangles of a single triangle, of a quad (two triangles over
\* four loops) and of two triangles apart: the loops of each triangle
LoopTriangles ==
    { << <<0, 1, 2>> >>, << <<0, 1, 2>>, <<0, 2, 3>> >>, << <<0, 1, 2>>, <<3, 4, 5>> >> }

LoopCount(tris) == IF Len(tris) = 1 THEN 3 ELSE IF tris[2][1] = 0 THEN 4 ELSE 6

\* mesh.vertex_colors[k].data: one color for each loop (entry l + 1 is loop l);
\* of a layer only the colors of the first three loops vary
ColorLayers(tris) ==
    { [l \in 1 .. LoopCount(tris) |-> IF l <= 3 THEN c[l] ELSE c[1]] :
        c \in [1 .. 3 -> ColorPool] }

Meshes ==
    { [loop_triangles |-> tris, vertex_colors |-> layers] :
        tris \in LoopTriangles,
        layers \in {<<>>} \cup UNION { { <<first>>,
                                         <<first, [l \in 1 .. Len(first) |-> <<0, 0, 0, ONE>>]>> } :
                                       first \in UNION { ColorLayers(t) : t \in LoopTriangles } } }

\* ExportVertex.__init__: self.color = [1.0, 1.0, 1.0]
DefaultColor == <<ONE, ONE, ONE>>

\* one iteration of the loop over mesh.loop_triangles that sets the colors:
\* colorFace[faceIndex] is read, and of each of the three records of the
\* triangle one component is set (a loop triangle has three vertices, so the
\* "len(face.vertices) == 4" part is not run)
ColorFace(colors, layer, faceIndex) ==
    LET cf == layer[faceIndex + 1]
        vertexIndex == 3 * faceIndex
    IN  [colors EXCEPT ![vertexIndex + 1][1] = cf[1],
                       ![vertexIndex + 2][2] = cf[2],
                       ![vertexIndex + 3][3] = cf[3]]

InitDeindex ==
    /\ UnifyIdle
    /\ CurveIdle
    /\ NodeIdle
    /\ SkinIdle
    /\ WriteIdle
    /\ GeometryIdle
    /\ ExecuteIdle
    /\ BakeIdle
    /\ BucketIdle
    /\ FlushIdle
    /\ TrackIdle
    /\ IndentIdle
    /\ mesh \in { m \in Meshes :
                    \A k \in 1 .. Len(m.vertex_colors) :
                        Len(m.vertex_colors[k]) = LoopCount(m.loop_triangles) }
    /\ shouldExportVertexColor \in BOOLEAN
    /\ colorArray = <<>>
    /\ dface = 0
    /\ dpc = "start"

\* the first loop: three ExportVertex records for each triangle
DeindexCorners ==
    /\ dpc = "start"
    /\ colorArray' = [v \in 1 .. 3 * Len(mesh.loop_triangles) |-> DefaultColor]
    /\ dface' = 0
    /\ dpc' = IF Len(mesh.vertex_colors) > 0 /\ shouldExportVertexColor
              THEN "color" ELSE "texcoord"
    /\ UNCHANGED <<mesh, shouldExportVertexColor, otherThanDeindex>>

\* one iteration of the loop over the triangles that sets the colors
DeindexColorFace ==
    /\ dpc = "color"
    /\ dface < Len(mesh.loop_triangles)
    /\ colorArray' = ColorFace(colorArray, mesh.vertex_colors[1], dface)
    /\ dface' = dface + 1
    /\ UNCHANGED <<mesh, shouldExportVertexColor, dpc, otherThanDeindex>>

DeindexColorEnd ==
    /\ dpc = "color"
    /\ dface = Len(mesh.loop_triangles)
    /\ dpc' = "texcoord"
    /\ UNCHANGED <<mesh, shouldExportVertexColor, colorArray, dface, otherThanDeindex>>

\* the texture coordinates and the hashes, which leave the colors alone; the
\* array is returned
DeindexReturn ==
    /\ dpc = "texcoord"
    /\ dpc' = "done"
    /\ UNCHANGED <<mesh, shouldExportVertexColor, colorArray, dface, otherThanDeindex>>

NextDeindex == DeindexCorners \/ DeindexColorFace \/ DeindexColorEnd \/ DeindexReturn

SpecDeindex == InitDeindex /\ [][NextDeindex]_vars

-----------------------------------------------------------------------------
(* unify_vertices: the bucket count and the bucket of a vertex               *)

RECURSIVE BitAnd(_, _)
\* a & b of Python integers, for b >= 0 and any a (a negative a has ones in
\* all its high bits)
BitAnd(a, b) ==
    IF b = 0 THEN 0 ELSE (a % 2) * (b % 2) + 2 * BitAnd(a \div 2, b \div 2)

\* hashes of a vertex: Python hashes are signed
VertexHashes == {0, 1, 7, 21737 * 5 + 2, -1, -6, -(21737 * 3 + 5)}

\* "ev.hash & (bucketCount - 1)" as a mutant: the remainder of a division
\* that truncates toward zero, which is negative for a negative hash
BucketIndexTruncated(hash, count) ==
    IF hash >= 0 THEN hash % count ELSE -((-hash) % count)

\* ev.hash & (bucketCount - 1)
BucketIndex(hash, count) == BitAnd(hash, count - 1)

InitBucket ==
    /\ UnifyIdle
    /\ CurveIdle
    /\ NodeIdle
    /\ SkinIdle
    /\ WriteIdle
    /\ GeometryIdle
    /\ ExecuteIdle
    /\ BakeIdle
    /\ DeindexIdle
    /\ FlushIdle
    /\ TrackIdle
    /\ IndentIdle
    /\ vertexCount \in 0 .. MaxVertices
    /\ vertexHash \in VertexHashes
    /\ roundCount = 0
    /\ routed = 0
    /\ kpc = "start"

\* bucketCount = len(exportVertexArray) >> 3; if bucketCount > 1 ... else 1
BucketBegin ==
    /\ kpc = "start"
    /\ IF vertexCount \div 8 > 1
       THEN /\ roundCount' = vertexCount \div 8
            /\ kpc' = "round"
       ELSE /\ roundCount' = 1
            /\ kpc' = "table"
    /\ UNCHANGED <<vertexCount, vertexHash, routed, otherThanBucket>>

\* one iteration of "while True: count = bucketCount & (bucketCount - 1) ..."
BucketRound ==
    /\ kpc = "round"
    /\ LET count == BitAnd(roundCount, roundCount - 1)
       IN  IF count = 0
           THEN /\ kpc' = "table"
                /\ UNCHANGED roundCount
           ELSE /\ roundCount' = count
                /\ UNCHANGED kpc
    /\ UNCHANGED <<vertexCount, vertexHash, routed, otherThanBucket>>

\* hashTable = [[] for i in range(bucketCount)]; bucket = ev.hash & (bucketCount - 1)
BucketRoute ==
    /\ kpc = "table"
    /\ vertexCount > 0
    /\ routed' = BucketIndex(vertexHash, roundCount)
    /\ kpc' = "routed"
    /\ UNCHANGED <<vertexCount, vertexHash, roundCount, otherThanBucket>>

\* an empty array: the loop over the vertices does nothing
BucketNone ==
    /\ kpc = "table"
    /\ vertexCount = 0
    /\ kpc' = "empty"
    /\ UNCHANGED <<vertexCount, vertexHash, roundCount, routed, otherThanBucket>>

NextBucket == BucketBegin \/ BucketRound \/ BucketRoute \/ BucketNone

SpecBucket == InitBucket /\ [][NextBucket]_vars

-----------------------------------------------------------------------------
(* The buffers in memory: WriteBuffer (opengex_exporter.py) and Buffer       *)
(* (export_v1.py)                                                            *)

MaxWrites == 3

\* the data of a write call
WriteData == {<<>>, <<1>>, <<2, 3>>}

\* BytesIO.write(d) at a position: the bytes from there on are replaced, the
\* stream grows when d reaches past its end
BytesIOWrite(data, pos, d) ==
    SubSeq(data, 1, pos) \o d \o SubSeq(data, pos + Len(d) + 1, Len(data))

\* copyfileobj(self.buffer, f): the bytes from the stream position to the end
copyfileobj(data, pos) == SubSeq(data, pos + 1, Len(data))

\* the position write_to_file copies from: WriteBuffer seeks to 0 first,
\* Buffer copies from where the last write left the stream
CopyFrom(class, pos) == IF class = "WriteBuffer" THEN 0 ELSE pos

InitFlush ==
    /\ UnifyIdle
    /\ CurveIdle
    /\ NodeIdle
    /\ SkinIdle
    /\ WriteIdle
    /\ GeometryIdle
    /\ ExecuteIdle
    /\ BakeIdle
    /\ DeindexIdle
    /\ BucketIdle
    /\ TrackIdle
    /\ IndentIdle
    /\ bufferClass \in {"WriteBuffer", "Buffer"}
    /\ bytesio = <<>>
    /\ bytesioPos = 0
    /\ writes = <<>>
    /\ fileData = <<>>
    /\ fpc = "open"

\* write(data): self.buffer.write(data)
FlushWrite ==
    /\ fpc \in {"open", "flushed"}
    /\ Len(writes) < MaxWrites
    /\ \E d \in WriteData :
          /\ bytesio' = BytesIOWrite(bytesio, bytesioPos, d)
          /\ bytesioPos' = bytesioPos + Len(d)
          /\ writes' = Append(writes, d)
    /\ fpc' = "open"
    /\ UNCHANGED <<bufferClass, fileData>>
    /\ UNCHANGED otherThanFlush

\* write_to_file(filepath): open(filepath, "wb") truncates the file, the copy
\* leaves the stream at its end
FlushWriteToFile ==
    /\ fpc = "open"
    /\ fileData' = copyfileobj(bytesio, CopyFrom(bufferClass, bytesioPos))
    /\ bytesioPos' = Len(bytesio)
    /\ fpc' = "flushed"
    /\ UNCHANGED <<bufferClass, bytesio, writes>>
    /\ UNCHANGED otherThanFlush

NextFlush ==
    \/ FlushWrite
    \/ FlushWriteToFile

SpecFlush == InitFlush /\ [][NextFlush]_vars

-----------------------------------------------------------------------------
(* The tracks of a bone and of the morph weights: export_bone_transform,     *)
(* ExportMorphWeights                                                        *)

MaxBlocks == 2
MaxMorphCurves == 2

\* shapeKeys.key_blocks of a mesh with n shape keys: their names
KeyBlockNames == <<"Basis", "Key 1", "Key 2", "Key 3">>

\* shapeKeys.key_blocks.find(name): the index of the block, -1 when there is none
KeyBlocksFind(name, n) ==
    IF \E k \in 1 .. n : KeyBlockNames[k] = name
    THEN (CHOOSE k \in 1 .. n : KeyBlockNames[k] = name) - 1
    ELSE -1

\* a curve of the action of the shape keys: its data_path is
\* key_blocks["<name>"].value (quoted) or key_blocks[<index>].value
MorphCurve(quoted, name, index, keys) ==
    [quoted |-> quoted, name |-> name, index |-> index, keyframe_points |-> keys]

MorphCurvePool ==
    { MorphCurve(TRUE, name, 0, keys) :
        name \in {"Key 1", "Gone"}, keys \in {LinMove2, BezMove3, ConstFlat1} }
    \cup { MorphCurve(FALSE, "", index, keys) :
        index \in 0 .. MaxBlocks, keys \in {LinMove2, BezMove3, ConstFlat1} }

RECURSIVE MorphCurveLists(_)
MorphCurveLists(n) ==
    IF n = 0 THEN {<<>>}
    ELSE MorphCurveLists(n - 1)
         \cup { Append(l, c) : l \in { m \in MorphCurveLists(n - 1) : Len(m) = n - 1 },
                               c \in MorphCurvePool }

\* what is exported: the shape keys of a node (op "morph": the number of key
\* blocks and the curves of the action), or a bone (op "bone": whether
\* CollectBoneAnimation finds a curve, whether the armature has a pose bone
\* of its name, whether its sampled matrix moves over the frame range)
TrackSubjects ==
    { [op |-> "morph", key_blocks |-> n, fcurves |-> l, sampleAnimationFlag |-> flag,
       curves |-> FALSE, pose_bone |-> FALSE, moves |-> FALSE] :
        n \in 1 .. MaxBlocks, l \in MorphCurveLists(MaxMorphCurves), flag \in BOOLEAN }
    \cup
    { [op |-> "bone", key_blocks |-> 0, fcurves |-> <<>>, sampleAnimationFlag |-> flag,
       curves |-> c, pose_bone |-> p, moves |-> m] :
        flag \in BOOLEAN, c \in BOOLEAN, p \in BOOLEAN, m \in BOOLEAN }

\* a curve is taken when its block is named by index, or by a name that
\* key_blocks.find() finds
MorphCurveTaken(t, c) == ~c.quoted \/ KeyBlocksFind(c.name, t.key_blocks) >= 0

\* curveArray and indexArray of ExportMorphWeights
MorphCurveArray(t) == SelectSeq(t.fcurves, LAMBDA c : MorphCurveTaken(t, c))

MorphIndexArray(t) ==
    [a \in 1 .. Len(MorphCurveArray(t)) |->
        IF MorphCurveArray(t)[a].quoted
        THEN KeyBlocksFind(MorphCurveArray(t)[a].name, t.key_blocks)
        ELSE MorphCurveArray(t)[a].index]

\* "mw" + str(k)
MorphTarget(k) == "mw" \o ToString(k)

\* the MorphWeight structures: named %mw<k> when a curve was taken
MorphWeightStructures(t) ==
    [k \in 1 .. t.key_blocks |->
        Structure("MorphWeight",
                  IF MorphCurveArray(t) # <<>> THEN MorphTarget(k - 1) ELSE "", "", <<k - 1>>)]

\* the Track of ExportMorphWeightSampledAnimationTrack and of
\* ExportBoneSampledAnimation: a time key for each frame of
\* range(beginFrame, endFrame), then endFrame * frameTime
SampledTrackOf(target) ==
    [block |-> "Track", name |-> "", kind |-> "", values |-> <<>>, target |-> target,
     time |-> [curve |-> "",
               keys |-> [i \in 1 .. (endFrame - beginFrame) |-> (i - 1) * frameTime]
                        \o <<endFrame * frameTime>>,
               minus |-> <<>>, plus |-> <<>>],
     value |-> NoKeys]

\* animation of export_bone_transform
BoneAnimation(t) == t.curves \/ t.sampleAnimationFlag

InitTrack ==
    /\ UnifyIdle
    /\ CurveIdle
    /\ NodeIdle
    /\ SkinIdle
    /\ WriteIdle
    /\ GeometryIdle
    /\ ExecuteIdle
    /\ BakeIdle
    /\ DeindexIdle
    /\ BucketIdle
    /\ FlushIdle
    /\ IndentIdle
    /\ trackSubject \in TrackSubjects
    /\ tdoc = <<>>
    /\ ta = 0
    /\ tpc = "start"

\* ExportMorphWeights up to the Animation block
TrackMorphWeights ==
    /\ tpc = "start"
    /\ trackSubject.op = "morph"
    /\ tdoc' = MorphWeightStructures(trackSubject)
               \o Opt(MorphCurveArray(trackSubject) # <<>>,
                      Structure("Animation", "", "", <<>>))
    /\ ta' = 1
    /\ tpc' = IF MorphCurveArray(trackSubject) # <<>> THEN "tracks" ELSE "done"
    /\ UNCHANGED trackSubject
    /\ UNCHANGED otherThanTrack

\* "for a in range(len(curveArray))": the Track of one curve;
\* shapeKeys.key_blocks[k] raises IndexError when k is past the last block
TrackMorphTrack ==
    /\ tpc = "tracks"
    /\ ta <= Len(MorphCurveArray(trackSubject))
    /\ LET k == MorphIndexArray(trackSubject)[ta]
           keys == MorphCurveArray(trackSubject)[ta].keyframe_points
           kind == ClassifyAnimationCurve(keys)
       IN  IF kind # ANIMATION_SAMPLED /\ ~trackSubject.sampleAnimationFlag
           THEN /\ tdoc' = Append(tdoc, ExportAnimationTrack(keys, kind, MorphTarget(k)))
                /\ ta' = ta + 1
                /\ tpc' = tpc
           ELSE IF k >= trackSubject.key_blocks
           THEN /\ tpc' = "raised"
                /\ UNCHANGED <<tdoc, ta>>
           ELSE /\ tdoc' = Append(tdoc, SampledTrackOf(MorphTarget(k)))
                /\ ta' = ta + 1
                /\ tpc' = tpc
    /\ UNCHANGED trackSubject
    /\ UNCHANGED otherThanTrack

TrackMorphEnd ==
    /\ tpc = "tracks"
    /\ ta > Len(MorphCurveArray(trackSubject))
    /\ tpc' = "done"
    /\ UNCHANGED <<trackSubject, tdoc, ta>>
    /\ UNCHANGED otherThanTrack

\* export_bone_transform up to the call of ExportBoneSampledAnimation
TrackBoneTransform ==
    /\ tpc = "start"
    /\ trackSubject.op = "bone"
    /\ tdoc' = <<Structure("Transform", TransformName(BoneAnimation(trackSubject)), "",
                           <<IdentityMatrix>>)>>
    /\ tpc' = IF BoneAnimation(trackSubject) /\ trackSubject.pose_bone
              THEN "sample" ELSE "done"
    /\ UNCHANGED <<trackSubject, ta>>
    /\ UNCHANGED otherThanTrack

\* ExportBoneSampledAnimation: the Animation block is written when the
\* matrix of the pose bone moves
TrackBoneSampled ==
    /\ tpc = "sample"
    /\ tdoc' = IF trackSubject.moves
               THEN tdoc \o <<Structure("Animation", "", "", <<>>),
                              SampledTrackOf("transform")>>
               ELSE tdoc
    /\ tpc' = "done"
    /\ UNCHANGED <<trackSubject, ta>>
    /\ UNCHANGED otherThanTrack

NextTrack ==
    \/ TrackMorphWeights
    \/ TrackMorphTrack
    \/ TrackMorphEnd
    \/ TrackBoneTransform
    \/ TrackBoneSampled

SpecTrack == InitTrack /\ [][NextTrack]_vars

-----------------------------------------------------------------------------
(* self.indentLevel across the export operations                             *)

MaxDepth == 3

\* what an operation does to the indentation, statement by statement:
\* self.indentLevel += 1, self.indentLevel -= 1, indent_write(text, extra)
\* with an extra below 0, and the call of another export operation
Inc == [t |-> "inc", op |-> "", extra |-> 0]
Dec == [t |-> "dec", op |-> "", extra |-> 0]
IndentWrite(extra) == [t |-> "write", op |-> "", extra |-> extra]
Invoke(op) == [t |-> "call", op |-> op, extra |-> 0]

\* the end of a Time block and the head of the Value block
ValueHead == <<IndentWrite(-1), IndentWrite(-1), IndentWrite(-1)>>

\* export_node as a mutant: the closing "indentLevel -= 1" is not under
\* "if node_ref"
export_node_always_closes(node_ref, inner, subnodes) ==
    (IF node_ref THEN <<Inc>> \o inner ELSE <<>>) \o subnodes \o <<Dec>>

\* export_node and export_bone: the block is opened and closed only for a
\* registered node; the children are exported either way
export_node_statements(node_ref, inner, subnodes) ==
    IF node_ref THEN <<Inc>> \o inner \o subnodes \o <<Dec>> ELSE subnodes

\* ExportSkin: Skin, Transform, Skeleton, BoneRefArray, Transform array,
\* BoneCountArray, BoneIndexArray, BoneWeightArray
ExportSkinStatements ==
    <<Inc, Inc, Dec, Inc, Inc, Dec, Inc, Dec, Dec, Inc, Dec, Inc, Dec, Inc, Dec, Dec>>

\* the statements of an operation, one list for each way through it; a
\* node or bone at the deepest level of the hierarchy has no child
Statements(op, depth) ==
    CASE op = "execute" ->
           { <<Invoke("export_node"), Invoke("ExportObjects"), Invoke("export_materials")>>,
             <<Invoke("export_node"), Invoke("export_node"), Invoke("ExportObjects"),
               Invoke("export_materials")>> }
      [] op = "export_node" ->
           { export_node_statements(FALSE, <<>>, <<>>),
             export_node_statements(TRUE, <<Invoke("ExportNodeTransform")>>, <<>>),
             export_node_statements(TRUE, <<Invoke("ExportMorphWeights"),
                                            Invoke("ExportNodeTransform")>>, <<>>),
             export_node_statements(TRUE, <<Inc, Dec, Invoke("ExportNodeTransform")>>, <<>>) }
           \cup (IF depth < MaxDepth
                 THEN { export_node_statements(FALSE, <<>>, <<Invoke("export_node")>>),
                        export_node_statements(TRUE, <<Invoke("ExportNodeTransform"),
                                                       Invoke("export_bone")>>,
                                               <<Invoke("export_node")>>) }
                 ELSE {})
      [] op = "export_bone" ->
           { export_node_statements(FALSE, <<>>, <<>>),
             export_node_statements(TRUE, <<Invoke("export_bone_transform")>>, <<>>) }
           \cup (IF depth < MaxDepth
                 THEN { export_node_statements(FALSE, <<>>, <<Invoke("export_bone"),
                                                              Invoke("export_node")>>),
                        export_node_statements(TRUE, <<Invoke("export_bone_transform")>>,
                                               <<Invoke("export_bone"),
                                                 Invoke("export_node")>>) }
                 ELSE {})
      [] op = "ExportNodeTransform" ->
           { <<Inc, Dec>>,
             <<Inc, Dec, Invoke("ExportNodeSampledAnimation")>>,
             <<Inc, Invoke("ExportAnimationTrack"), Invoke("ExportAnimationTrack"), Dec>> }
      [] op = "export_bone_transform" ->
           { <<Inc, Dec>>, <<Inc, Dec, Invoke("ExportBoneSampledAnimation")>> }
      [] op = "ExportMorphWeights" ->
           { <<>>,
             <<Inc, Invoke("ExportAnimationTrack"),
               Invoke("ExportMorphWeightSampledAnimationTrack"), Dec>> }
      [] op = "ExportAnimationTrack" ->
           { <<Inc, Inc>> \o ValueHead \o <<Dec, Dec>> }
      [] op \in {"ExportNodeSampledAnimation", "ExportBoneSampledAnimation"} ->
           { <<>>, <<Inc, Inc, Inc>> \o ValueHead \o <<Inc, Dec, Dec, Dec, Dec>> }
      [] op = "ExportMorphWeightSampledAnimationTrack" ->
           { <<Inc, Inc>> \o ValueHead \o <<Dec, Dec>> }
      [] op = "ExportObjects" ->
           { <<>>,
             <<Invoke("ExportGeometry"), Invoke("ExportLight"), Invoke("ExportCamera")>> }
      [] op = "ExportGeometry" ->
           { <<Inc, Inc, Inc, Dec, Inc, Dec, Dec, Dec>>,
             <<Inc, Inc, Inc, Dec, Inc, Dec, Inc, Dec, Inc, Dec, Inc, Dec, Inc, Dec,
               Inc, Dec, Invoke("ExportSkin"), Dec, Dec>> }
      [] op = "ExportSkin" -> { ExportSkinStatements }
      [] op \in {"ExportLight", "ExportCamera", "export_image_node_texture"} ->
           { <<Inc, Dec>> }
      [] op = "export_materials" ->
           { <<>>, <<Inc, Dec>>,
             <<Inc, Invoke("export_image_node_texture"), Dec, Inc, Dec>> }

\* a call in progress: the operation, the way taken through it, the
\* statement it is at, and self.indentLevel when it was entered
Frame(op, statements, entry) ==
    [op |-> op, statements |-> statements, at |-> 1, entry |-> entry]

Top == callStack[Len(callStack)]

\* the statement the innermost operation is at
Current == Top.statements[Top.at]

indentFixed ==
    <<unifyVars, curveVars, nodeVars, skinVars, geometryVars, executeVars,
      bakeVars, deindexVars, bucketVars, flushVars, trackVars,
      writeCall, option_float_as_hex, file, wpc>>

\* execute: self.indentLevel = 0
InitIndent ==
    /\ UnifyIdle
    /\ CurveIdle
    /\ NodeIdle
    /\ SkinIdle
    /\ WriteIdle
    /\ GeometryIdle
    /\ ExecuteIdle
    /\ BakeIdle
    /\ DeindexIdle
    /\ BucketIdle
    /\ FlushIdle
    /\ TrackIdle
    /\ \E statements \in Statements("execute", 0) :
          callStack = <<Frame("execute", statements, 0)>>
    /\ deepest = 0
    /\ ipc = "run"

Advance == [callStack EXCEPT ![Len(callStack)].at = @ + 1]

\* self.indentLevel += 1
IndentInc ==
    /\ ipc = "run"
    /\ callStack # <<>>
    /\ Top.at <= Len(Top.statements)
    /\ Current.t = "inc"
    /\ indentLevel' = indentLevel + 1
    /\ deepest' = IF indentLevel + 1 > deepest THEN indentLevel + 1 ELSE deepest
    /\ callStack' = Advance
    /\ UNCHANGED <<ipc, indentFixed>>

\* self.indentLevel -= 1
IndentDec ==
    /\ ipc = "run"
    /\ callStack # <<>>
    /\ Top.at <= Len(Top.statements)
    /\ Current.t = "dec"
    /\ indentLevel' = indentLevel - 1
    /\ callStack' = Advance
    /\ UNCHANGED <<deepest, ipc, indentFixed>>

\* indent_write(text, extra): range(self.indentLevel + extra) tabs
IndentWriteStep ==
    /\ ipc = "run"
    /\ callStack # <<>>
    /\ Top.at <= Len(Top.statements)
    /\ Current.t = "write"
    /\ callStack' = Advance
    /\ UNCHANGED <<indentLevel, deepest, ipc, indentFixed>>

\* an export operation is called
IndentCall ==
    /\ ipc = "run"
    /\ callStack # <<>>
    /\ Top.at <= Len(Top.statements)
    /\ Current.t = "call"
    /\ \E statements \in Statements(Current.op, Len(callStack)) :
          callStack' = Append(Advance, Frame(Current.op, statements, indentLevel))
    /\ UNCHANGED <<indentLevel, deepest, ipc, indentFixed>>

\* an export operation returns
IndentReturn ==
    /\ ipc = "run"
    /\ Len(callStack) > 1
    /\ Top.at > Len(Top.statements)
    /\ callStack' = SubSeq(callStack, 1, Len(callStack) - 1)
    /\ UNCHANGED <<indentLevel, deepest, ipc, indentFixed>>

\* execute: self.file.write_to_file(self.filepath)
IndentFlush ==
    /\ ipc = "run"
    /\ Len(callStack) = 1
    /\ Top.at > Len(Top.statements)
    /\ ipc' = "flushed"
    /\ UNCHANGED <<indentLevel, callStack, deepest, indentFixed>>

NextIndent ==
    \/ IndentInc
    \/ IndentDec
    \/ IndentWriteStep
    \/ IndentCall
    \/ IndentReturn
    \/ IndentFlush

SpecIndent == InitIndent /\ [][NextIndent]_vars

-----------------------------------------------------------------------------
(* Properties of the curve classification *)

Interpolations(keys) == { keys[i].interpolation : i \in 1 .. Len(keys) }

\* C5 as amended: Sampled if some keyframe is neither LINEAR nor BEZIER,
\* wherever it sits; otherwise Linear if every keyframe is LINEAR, which
\* includes the curve without keyframes; otherwise Bezier if every keyframe
\* is BEZIER; otherwise (both occur) Sampled.
ClassifyTable ==
    cpc # "ready" =>
        ckind = IF Interpolations(fcurve) \ {"LINEAR", "BEZIER"} # {} THEN ANIMATION_SAMPLED
                ELSE IF Interpolations(fcurve) \subseteq {"LINEAR"} THEN ANIMATION_LINEAR
                ELSE IF Interpolations(fcurve) \subseteq {"BEZIER"} THEN ANIMATION_BEZIER
                ELSE ANIMATION_SAMPLED

\* C5 witness: a classified curve of three keyframes whose last keyframe only
\* is neither LINEAR nor BEZIER
ClassifyTableWitness ==
    /\ cpc = "classified"
    /\ Len(fcurve) = 3
    /\ fcurve[1].interpolation = "LINEAR"
    /\ fcurve[2].interpolation = "BEZIER"
    /\ fcurve[3].interpolation = "CONSTANT"
    /\ ckind = ANIMATION_SAMPLED

\* C5 as stated: Sampled if some keyframe is neither LINEAR nor BEZIER;
\* otherwise Bezier if all keyframes are BEZIER, Linear if all are LINEAR, and
\* Sampled if the two are mixed.
ClassifyTableAsStated ==
    cpc # "ready" =>
        ckind = IF Interpolations(fcurve) \ {"LINEAR", "BEZIER"} # {} THEN ANIMATION_SAMPLED
                ELSE IF \A i \in 1 .. Len(fcurve) : fcurve[i].interpolation = "BEZIER"
                     THEN ANIMATION_BEZIER
                ELSE IF \A i \in 1 .. Len(fcurve) : fcurve[i].interpolation = "LINEAR"
                     THEN ANIMATION_LINEAR
                ELSE ANIMATION_SAMPLED

\* some two keyframes, any two, have values more than EPSILON apart
SomePairDiffers(keys) ==
    \E i \in 1 .. Len(keys) : \E j \in 1 .. Len(keys) : Abs(keys[i].co[2] - keys[j].co[2]) > EPSILON

\* some keyframe has a handle more than EPSILON away from its value
SomeHandleDeviates(keys) ==
    \E i \in 1 .. Len(keys) :
        \/ Abs(keys[i].co[2] - keys[i].handle_left[2]) > EPSILON
        \/ Abs(keys[i].handle_right[2] - keys[i].co[2]) > EPSILON

\* C6: AnimationPresent(curve, kind) for kind Linear or Sampled is true iff
\* some two keyframes (any pair) differ by more than EPSILON; for kind Bezier
\* it is true iff that holds or some handle deviates from its key value by
\* more than EPSILON.
PresentIffAnyPairDiffers ==
    cpc = "done" =>
        cpresent = IF presentKind # ANIMATION_BEZIER THEN SomePairDiffers(fcurve)
                   ELSE SomePairDiffers(fcurve) \/ SomeHandleDeviates(fcurve)

\* C7: AnimationPresent is false for every curve whose values are pairwise
\* within EPSILON and, for kind Bezier, whose handles are within EPSILON of
\* their key values.
PresentFalseWhenFlat ==
    (/\ cpc = "done"
     /\ ~SomePairDiffers(fcurve)
     /\ presentKind = ANIMATION_BEZIER => ~SomeHandleDeviates(fcurve))
        => cpresent = FALSE

\* C7 witness: AnimationPresent has returned false for an all-Bezier curve of
\* three keyframes whose values are not all the same and one of whose handles
\* is off by exactly EPSILON
PresentFalseWhenFlatWitness ==
    /\ cpc = "done"
    /\ presentKind = ANIMATION_BEZIER
    /\ ckind = ANIMATION_BEZIER
    /\ Len(fcurve) = 3
    /\ \E i, j \in 1 .. 3 : fcurve[i].co[2] # fcurve[j].co[2]
    /\ \E i \in 1 .. 3 : Abs(fcurve[i].handle_right[2] - fcurve[i].co[2]) = EPSILON
    /\ cpresent = FALSE

-----------------------------------------------------------------------------
(* Properties of ExportNodeTransform *)

KindOf(fc) == ClassifyAnimationCurve(fc.keyframe_points)

CurvePresent(fc) == AnimationPresent(fc.keyframe_points, KindOf(fc))

\* some curve of the action makes ExportNodeTransform choose the sampled form:
\* it classifies as Sampled, or it drives a quaternion or axis-angle rotation
SomeCurveSampled(n) ==
    \E k \in 1 .. Len(n.fcurves) :
        KindOf(n.fcurves[k]) = ANIMATION_SAMPLED \/ n.fcurves[k].data_path \in SampledPaths

\* the position of the first curve of the action on channel (g, i), 0 if none
FirstCurveOn(n, g, i) ==
    LET on == { k \in 1 .. Len(n.fcurves) :
                  n.fcurves[k].data_path = g /\ n.fcurves[k].array_index = i }
    IN  IF on = {} THEN 0 ELSE CHOOSE k \in on : \A m \in on : k <= m

\* channel (g, i) is Present: the curve driving it is Present
ChannelPresent(n, g, i) ==
    FirstCurveOn(n, g, i) # 0 /\ CurvePresent(n.fcurves[FirstCurveOn(n, g, i)])

PresentChannels(n) == { c \in GroupSet \X (0 .. 2) : ChannelPresent(n, c[1], c[2]) }

Blocks(d, b) == { k \in 1 .. Len(d) : d[k].block = b }

\* C8 as amended: for a node with an Euler rotation mode, force-sampled off,
\* no curve that classifies as Sampled or drives a quaternion or axis-angle
\* rotation, and no channel Present, exactly one Transform block holding one
\* 4x4 matrix is written, without the %transform name, and no Animation block
\* and no Track.
StaticCase ==
    (/\ npc = "done"
     /\ node.rotation_mode \in EulerModes
     /\ ~sampleAnimationFlag
     /\ ~SomeCurveSampled(node)
     /\ PresentChannels(node) = {})
        => /\ Len(doc) = 1
           /\ doc[1].block = "Transform"
           /\ doc[1].name = ""
           /\ Len(doc[1].values) = 1

\* C8 witness: the static case for a node whose action holds two curves, one
\* on a location channel, and whose location is not zero
StaticCaseWitness ==
    /\ npc = "done"
    /\ node.rotation_mode \in EulerModes
    /\ ~sampleAnimationFlag
    /\ ~SomeCurveSampled(node)
    /\ PresentChannels(node) = {}
    /\ Len(node.fcurves) = 2
    /\ FirstCurveOn(node, "location", 0) # 0
    /\ node.static = StaticMoved
    /\ Len(doc) = 1

\* C8 as stated: for a node with an Euler rotation mode, force-sampled off and
\* no curve that is Present, exactly one Transform block holding one 4x4
\* matrix is written, without the %transform name, and no Animation block and
\* no Track.
StaticCaseAsStated ==
    (/\ npc = "done"
     /\ node.rotation_mode \in EulerModes
     /\ ~sampleAnimationFlag
     /\ \A k \in 1 .. Len(node.fcurves) : ~CurvePresent(node.fcurves[k]))
        => /\ Len(doc) = 1
           /\ doc[1].block = "Transform"
           /\ doc[1].name = ""
           /\ Len(doc[1].values) = 1

\* the decomposed case of C9 for location axis a: the Present channels are
\* that one channel, and an all-Bezier curve drives it
OnlyLocationAxisBezier(n, a) ==
    /\ n.rotation_mode \in EulerModes
    /\ ~sampleAnimationFlag
    /\ PresentChannels(n) = {<<"location", a>>}
    /\ KindOf(n.fcurves[FirstCurveOn(n, "location", a)]) = ANIMATION_BEZIER

\* what C9 says is written for location axis a driven by a curve of k keyframes
DecomposedSingleTrack(d, a, k) ==
    /\ Blocks(d, "Transform") = {}
    /\ Cardinality(Blocks(d, "Animation")) = 1
    /\ Cardinality(Blocks(d, "Track")) = 1
    /\ \A t \in Blocks(d, "Track") :
          /\ d[t].target = subtranslationName[a + 1]
          /\ d[t].time.curve = "bezier"
          /\ d[t].value.curve = "bezier"
          /\ Len(d[t].time.keys) = k
          /\ Len(d[t].time.minus) = k
          /\ Len(d[t].time.plus) = k
          /\ Len(d[t].value.keys) = k
          /\ Len(d[t].value.minus) = k
          /\ Len(d[t].value.plus) = k
          /\ \E m \in 1 .. (t - 1) :
                /\ d[m].block = "Translation"
                /\ d[m].name = d[t].target
                /\ d[m].kind = axisName[a + 1]
          /\ Cardinality({ m \in 1 .. Len(d) : d[m].name = d[t].target }) = 1

\* C9 as amended: for a node in an Euler rotation mode with force-sampled off,
\* no curve that classifies as Sampled or drives a quaternion or axis-angle
\* rotation, and whose only Present channel is one location axis a, driven by
\* an all-Bezier curve with k keyframes, the node is written in decomposed
\* form with exactly one Track, which targets the Translation structure of
\* axis a and whose Time and Value blocks are marked bezier and hold k plain,
\* k "-control" and k "+control" keys each.
DecomposedCase ==
    \A a \in 0 .. 2 :
        (npc = "done" /\ ~SomeCurveSampled(node) /\ OnlyLocationAxisBezier(node, a))
            => DecomposedSingleTrack(doc, a,
                   Len(node.fcurves[FirstCurveOn(node, "location", a)].keyframe_points))

\* C9 witness: the decomposed case for the y axis, driven by a curve of three
\* keyframes, in an action that also holds a curve that is not Present
DecomposedCaseWitness ==
    /\ npc = "done"
    /\ ~SomeCurveSampled(node)
    /\ OnlyLocationAxisBezier(node, 1)
    /\ Len(node.fcurves) = 2
    /\ Len(node.fcurves[FirstCurveOn(node, "location", 1)].keyframe_points) = 3
    /\ \E k \in 1 .. 2 : ~CurvePresent(node.fcurves[k])
    /\ Cardinality(Blocks(doc, "Track")) = 1

\* C9 as stated: for a node in an Euler rotation mode with force-sampled off
\* whose only Present curve is an all-Bezier curve with k keyframes on one
\* location axis a, the node is written in decomposed form with exactly one
\* Track, which targets the Translation structure of axis a and whose Time
\* and Value blocks are marked bezier and hold k plain, k "-control" and k
\* "+control" keys each.
DecomposedCaseAsStated ==
    \A a \in 0 .. 2 :
        (/\ npc = "done"
         /\ OnlyLocationAxisBezier(node, a)
         /\ \A k \in 1 .. Len(node.fcurves) :
               CurvePresent(node.fcurves[k]) => k = FirstCurveOn(node, "location", a))
            => DecomposedSingleTrack(doc, a,
                   Len(node.fcurves[FirstCurveOn(node, "location", a)].keyframe_points))

\* some curve of the action classifies as Sampled
SomeCurveClassifiesSampled(n) ==
    \E k \in 1 .. Len(n.fcurves) : KindOf(n.fcurves[k]) = ANIMATION_SAMPLED

\* ExportNodeTransform is to choose the sampled form
SampledState ==
    \/ node.rotation_mode \in {"QUATERNION", "AXIS_ANGLE"}
    \/ sampleAnimationFlag
    \/ SomeCurveClassifiesSampled(node)

\* C18: with rotation mode QUATERNION or AXIS_ANGLE, or the force-sampled
\* option set, or a curve of the action that classifies as Sampled (at any
\* place among the curves, on any channel, also after curves that were marked
\* Present), the node is written in the sampled form: one Transform named
\* %transform, then the baking step, and no per-axis structure.
SampledStateSelection ==
    /\ [](SampledState /\ npc = "done" =>
             /\ doc # <<>>
             /\ Blocks(doc, "Transform") = {1}
             /\ doc[1].name = "transform"
             /\ Len(doc[1].values) = 1
             /\ Blocks(doc, "Translation") \cup Blocks(doc, "Rotation")
                   \cup Blocks(doc, "Scale") = {}
             /\ \A t \in Blocks(doc, "Track") : doc[t].target = "transform")
    /\ [][SampledState /\ npc = "write" => npc' = "sample"]_vars
    /\ [][SampledState /\ npc' = "done" => npc = "sample"]_vars

\* C18 witness: an Euler node, force-sampled off, whose second curve
\* classifies as Sampled after a first curve that was marked Present
SampledStateSelectionWitness ==
    /\ npc = "done"
    /\ node.rotation_mode \in EulerModes
    /\ ~sampleAnimationFlag
    /\ Len(node.fcurves) = 2
    /\ CurvePresent(node.fcurves[1])
    /\ KindOf(node.fcurves[1]) # ANIMATION_SAMPLED
    /\ KindOf(node.fcurves[2]) = ANIMATION_SAMPLED
    /\ \E g \in GroupSet : GroupAnimated(animated, g)
    /\ doc[1].name = "transform"

\* the matrix of the node at some frame of the closed range
\* beginFrame .. endFrame differs from the rest matrix taken on entry
DiffersInClosedRange(n, currentFrame) ==
    \E f \in beginFrame .. endFrame :
        MatricesDifferent(MatrixLocal(n, currentFrame), MatrixLocal(n, f))

\* C19: the sampled fallback writes the Animation block if and only if the
\* matrix at some frame f with beginFrame <= f <= endFrame differs from the
\* rest matrix captured at entry by more than EPSILON in some element; when
\* no frame of that closed range differs, no Animation block is written.
SampledFallbackWholeRange ==
    (npc = "done" /\ sampledAnimation)
        => (Blocks(doc, "Animation") # {} <=> DiffersInClosedRange(node, frameCurrent))

\* the keyword of the structures of a group
BlockOf(g) ==
    IF g \in {"location", "delta_location"} THEN "Translation"
    ELSE IF g \in {"rotation_euler", "delta_rotation_euler"} THEN "Rotation"
    ELSE "Scale"

\* the places of the named structure of axis i of group g
AxisStructures(d, g, i) ==
    { k \in 1 .. Len(d) : /\ d[k].block = BlockOf(g)
                          /\ d[k].name = SubName(g)[i + 1]
                          /\ d[k].kind = axisName[i + 1]
                          /\ d[k].values = <<node.static[g][i + 1]>> }

\* the places of a combined 3-vector structure of group g
CombinedStructures(d, g) ==
    { k \in 1 .. Len(d) : /\ d[k].block = BlockOf(g)
                          /\ d[k].name = ""
                          /\ d[k].values = node.static[g] }

\* the node is written in the decomposed form
DecomposedForm ==
    /\ npc = "done"
    /\ node.rotation_mode \in EulerModes
    /\ ~sampleAnimationFlag
    /\ ~SomeCurveSampled(node)
    /\ PresentChannels(node) # {}

GroupPresent(n, g) == \E i \in 0 .. 2 : ChannelPresent(n, g, i)

\* C20 as amended: in the decomposed form, a group with a Present channel is
\* written as one named per-axis structure for every axis that is Present or
\* whose static value is more than EPSILON away from 0, an axis that is not
\* Present and whose static value is within EPSILON of 0 is not written, and
\* no combined 3-vector structure is written for the group.
GroupSplit ==
    DecomposedForm =>
        \A g \in GroupSet :
            GroupPresent(node, g) =>
                /\ \A i \in 0 .. 2 :
                      Cardinality(AxisStructures(doc, g, i)) =
                          IF \/ ChannelPresent(node, g, i)
                             \/ Abs(node.static[g][i + 1]) > EPSILON
                          THEN 1 ELSE 0
                /\ CombinedStructures(doc, g) = {}

\* C20 witness: the location group with its x axis Present only, y static at
\* 300e-7 and z static at 0: xpos and ypos are written, zpos is not
GroupSplitWitness ==
    /\ DecomposedForm
    /\ { c \in PresentChannels(node) : c[1] = "location" } = {<<"location", 0>>}
    /\ node.static = StaticMoved
    /\ AxisStructures(doc, "location", 0) # {}
    /\ AxisStructures(doc, "location", 1) # {}
    /\ AxisStructures(doc, "location", 2) = {}

\* C20 as stated: in the decomposed form, a group with a Present channel is
\* written as named per-axis structures for all three of its axes, whatever
\* their static value, and no combined 3-vector structure is written for it.
GroupSplitAsStated ==
    DecomposedForm =>
        \A g \in GroupSet :
            GroupPresent(node, g) =>
                /\ \A i \in 0 .. 2 : Cardinality(AxisStructures(doc, g, i)) = 1
                /\ CombinedStructures(doc, g) = {}

-----------------------------------------------------------------------------
(* Properties of ExportSkin *)

RECURSIVE SumUpTo(_, _)
SumUpTo(counts, n) == IF n = 0 THEN 0 ELSE SumUpTo(counts, n - 1) + counts[n]

RECURSIVE RatSum(_)
RatSum(ws) == IF ws = <<>> THEN <<0, 1>> ELSE RatAdd(ws[1], RatSum(Tail(ws)))

\* the raw weights recorded for vertex v: those of its groups that belong to
\* a bone and are not zero
RawWeights(v) ==
    LET recorded(e) == groupRemap[e.group + 1] >= 0 /\ e.weight # <<0, 1>>
        kept == SelectSeq(meshVertexArray[v + 1], recorded)
    IN  [m \in 1 .. Len(kept) |-> kept[m].weight]

\* the weights in boneWeightArray of the j-th exported vertex
WrittenWeights(j) ==
    SubSeq(boneWeightArray, SumUpTo(boneCountArray, j - 1) + 1,
           SumUpTo(boneCountArray, j))

\* x = y / t for fractions x, y and t # 0
IsQuotient(x, y, t) == x[1] * y[2] * t[1] = y[1] * t[2] * x[2]

\* C10: for every exported vertex whose recorded raw bone weights have a
\* nonzero total, the weights in boneWeightArray for that vertex are the raw
\* weights each divided by that total, and they sum to 1, whatever was
\* processed before that vertex.
SkinWeightsNormalized ==
    \A j \in 1 .. sk :
        LET raw == RawWeights(skinVertexArray[j])
            written == WrittenWeights(j)
        IN  /\ boneCountArray[j] = Len(raw)
            /\ Len(boneWeightArray) >= SumUpTo(boneCountArray, j)
            /\ RatSum(raw) # <<0, 1>> =>
                  /\ \A m \in 1 .. Len(raw) : IsQuotient(written[m], raw[m], RatSum(raw))
                  /\ RatSum(written) = <<1, 1>>

\* C10 witness: the arrays are written after three vertices; the first has
\* influences, the second has none, and the third has two whose raw total is
\* not 1
SkinWeightsNormalizedWitness ==
    /\ spc = "done"
    /\ sk = 3
    /\ boneCountArray[1] > 0
    /\ boneCountArray[2] = 0
    /\ boneCountArray[3] = 2
    /\ RatSum(RawWeights(skinVertexArray[3])) \notin {<<0, 1>>, <<1, 1>>}
    /\ RatSum(WrittenWeights(3)) = <<1, 1>>

\* the shape of the three arrays after sk vertices
SkinShape ==
    /\ Len(boneCountArray) = sk
    /\ spc = "done" => sk = Len(skinVertexArray)
    /\ \A j \in 1 .. sk : boneCountArray[j] = Len(RawWeights(skinVertexArray[j]))
    /\ SumUpTo(boneCountArray, sk) = Len(boneIndexArray)
    /\ Len(boneIndexArray) = Len(boneWeightArray)

\* a step leaves every entry the weight and index arrays already hold as it is
EarlierEntriesKept ==
    /\ \A i \in 1 .. Len(boneWeightArray) :
          i <= Len(boneWeightArray') /\ boneWeightArray'[i] = boneWeightArray[i]
    /\ \A i \in 1 .. Len(boneIndexArray) :
          i <= Len(boneIndexArray') /\ boneIndexArray'[i] = boneIndexArray[i]

\* C11: boneCountArray has one entry per vertex handed in, in the same order,
\* the sum of boneCountArray is the length of boneIndexArray and of
\* boneWeightArray, and normalising a vertex changes only the entries of that
\* vertex: the weights of all earlier vertices stay as they were.
SkinArrayShape == []SkinShape /\ [][EarlierEntriesKept]_vars

\* C11 witness: the arrays are written after three vertices with influences,
\* each with a raw total other than 1, so each was normalised after the
\* weights of the earlier ones were in the array
SkinArrayShapeWitness ==
    /\ spc = "done"
    /\ sk = 3
    /\ \A j \in 1 .. 3 :
          /\ boneCountArray[j] >= 2
          /\ RatSum(RawWeights(skinVertexArray[j])) # <<1, 1>>
    /\ skinVertexArray[1] # skinVertexArray[2]
    /\ Len(boneWeightArray) = SumUpTo(boneCountArray, 3)

-----------------------------------------------------------------------------
(* Properties of write_float and the array writers *)

\* C12 as stated: for NaN, +Infinity and -Infinity write_float appends a zero
\* literal to the buffer and returns normally, both in decimal text and in
\* the 8-hex-digit form; it never raises.
NonFiniteWrittenAsZero ==
    (wpc # "call" /\ writeCall.fn = "write_float" /\ writeCall.f \in NonFiniteFloats)
        => /\ wpc = "returned"
           /\ file = <<IF option_float_as_hex THEN "0x00000000" ELSE "0.0">>

\* what is written with the indentation left out
Unindented == SelectSeq(file, LAMBDA t : t \notin {"\t", ""})

\* the data written for element k of the array of the call, by the writer of
\* one element
ElementData(call, hex, k) ==
    CASE call.fn = "write_int_array" -> write_int(IntValues(call.n)[k]).data
      [] call.fn = "write_float_array" -> write_float(FloatValues(call.n)[k], hex).data
      [] call.fn = "write_vertex_array_2d" ->
             write_vector_2d(Vertices(call.n)[k][call.attrib], hex).data
      [] call.fn = "write_vertex_array_3d" ->
             write_vector_3d(Vertices(call.n)[k][call.attrib], hex).data
      [] call.fn = "write_triangle_array" ->
             write_triangle(k - 1, TriangleIndices(call.n)).data

\* how many pieces of data one element takes
ElementLength(fn) ==
    CASE fn \in {"write_int_array", "write_float_array"} -> 1
      [] fn = "write_vertex_array_2d" -> 5
      [] fn \in {"write_vertex_array_3d", "write_triangle_array"} -> 7

\* C13: for each array writer and every length n >= 0, what is written is the
\* input elements in input order, each once and each followed by one
\* separator: a comma between two elements, which ends the line exactly after
\* each full line of 64, 16, 8, 8 or 16 elements, and a plain line end, with
\* no comma, after the last element.
ChunkingKeepsSequence ==
    (wpc # "call" /\ writeCall.fn \in ArrayWriters) =>
        LET L == ElementLength(writeCall.fn)
            w == LineWidth(writeCall.fn)
            n == writeCall.n
            u == Unindented
        IN  /\ wpc = "returned"
            /\ Len(u) = (L + 1) * n
            /\ \A k \in 1 .. n :
                  /\ SubSeq(u, (L + 1) * (k - 1) + 1, (L + 1) * (k - 1) + L)
                         = ElementData(writeCall, option_float_as_hex, k)
                  /\ u[(L + 1) * k] = (IF k = n THEN "\n"
                                       ELSE IF k % w = 0 THEN ",\n" ELSE ", ")

\* C13 witness: write_int_array has written an array that fills two lines
\* exactly: a comma ends the first line and none the second
ChunkingKeepsSequenceWitness ==
    /\ wpc = "returned"
    /\ writeCall.fn = "write_int_array"
    /\ writeCall.n = 2 * 64
    /\ Unindented[2 * 64] = ",\n"
    /\ Unindented[2 * 2 * 64] = "\n"
    /\ Len(Unindented) = 2 * 2 * 64

-----------------------------------------------------------------------------
(* Properties of the index arrays of ExportGeometry *)

\* the three unified indices of face i (counted from 1)
TriangleOf(i) ==
    <<geometryIndexTable[3 * i - 2], geometryIndexTable[3 * i - 1], geometryIndexTable[3 * i]>>

\* the faces with material index m, in face order
FacesWithMaterial(m) ==
    SelectSeq([i \in 1 .. Len(materialTable) |-> i], LAMBDA i : materialTable[i] = m)

UsedMaterials == {materialTable[i] : i \in 1 .. Len(materialTable)}

\* C14: when some triangle has a material index > 0, one IndexArray
\* (material = m) is written for each material index m some triangle uses and
\* none for the others; it holds the triangles of material index m, in face
\* order, with their three indices of indexTable, and its count is their
\* number, so every triangle is in exactly one IndexArray.  When every
\* triangle has material index 0, one IndexArray without a material holds all
\* triangles.
IndexArraysPartition ==
    gpc = "done" =>
        IF \E i \in 1 .. Len(materialTable) : materialTable[i] > 0
        THEN /\ {indexArrays[b].material : b \in 1 .. Len(indexArrays)} = UsedMaterials
             /\ Len(indexArrays) = Cardinality(UsedMaterials)
             /\ \A b \in 1 .. Len(indexArrays) :
                   LET faces == FacesWithMaterial(indexArrays[b].material)
                   IN  /\ indexArrays[b].count = Len(faces)
                       /\ indexArrays[b].triangles
                              = [t \in 1 .. Len(faces) |-> TriangleOf(faces[t])]
             /\ \A i \in 1 .. Len(materialTable) :
                   Cardinality({b \in 1 .. Len(indexArrays) :
                                   \E t \in 1 .. indexArrays[b].count :
                                       /\ FacesWithMaterial(indexArrays[b].material)[t] = i
                                       /\ indexArrays[b].triangles[t] = TriangleOf(i)}) = 1
        ELSE /\ Len(indexArrays) = 1
             /\ indexArrays[1].material = -1
             /\ indexArrays[1].count = Len(materialTable)
             /\ indexArrays[1].triangles
                    = [t \in 1 .. Len(materialTable) |-> TriangleOf(t)]

\* C14 witness: four triangles with material indexes 2, 0, 0, 2 are written
\* as two index arrays, for 0 and for 2, and none for 1
IndexArraysPartitionWitness ==
    /\ gpc = "done"
    /\ materialTable = <<2, 0, 0, 2>>
    /\ Len(indexArrays) = 2
    /\ indexArrays[1].material = 0
    /\ indexArrays[2].material = 2
    /\ indexArrays[2].triangles = <<TriangleOf(1), TriangleOf(4)>>


\* the groups of vertex v that carry the name of a bone
BoneGroups(v) ==
    SelectSeq(meshVertexArray[v + 1],
              LAMBDA e : \E i \in 1 .. Len(boneArray) : boneArray[i] = vertex_groups[e.group + 1])

\* the indices in boneIndexArray of the j-th exported vertex
WrittenIndices(j) ==
    SubSeq(boneIndexArray, SumUpTo(boneCountArray, j - 1) + 1, SumUpTo(boneCountArray, j))

\* C22: every (bone index, weight) pair recorded for a vertex comes from a
\* vertex group named as a bone (index in 0 .. boneCount - 1, never -1) with a
\* weight > 0, and a vertex whose raw weight total is zero has influence count
\* 0 and no entry in boneIndexArray or boneWeightArray.
SkinInfluencesPositive ==
    /\ \A p \in 1 .. Len(boneIndexArray) : boneIndexArray[p] \in 0 .. (Len(boneArray) - 1)
    /\ \A p \in 1 .. Len(boneWeightArray) : boneWeightArray[p][1] > 0 /\ boneWeightArray[p][2] > 0
    /\ \A j \in 1 .. sk :
          LET named == BoneGroups(skinVertexArray[j])
              positive == SelectSeq(named, LAMBDA e : e.weight[1] > 0)
          IN  /\ Len(WrittenIndices(j)) = Len(positive)
              /\ \A m \in 1 .. Len(positive) :
                    boneArray[WrittenIndices(j)[m] + 1] = vertex_groups[positive[m].group + 1]
              /\ RatSum([m \in 1 .. Len(named) |-> named[m].weight]) = <<0, 1>> =>
                    /\ boneCountArray[j] = 0
                    /\ WrittenIndices(j) = <<>>
                    /\ WrittenWeights(j) = <<>>

\* C22 witness: the arrays are written for a vertex with a zero weight on a
\* bone and a positive one, a vertex whose only group is not a bone, and one
\* with two positive weights
SkinInfluencesPositiveWitness ==
    /\ spc = "done"
    /\ skinVertexArray = <<3, 2, 0>>
    /\ boneCountArray = <<1, 0, 2>>
    /\ Len(boneIndexArray) = 3

-----------------------------------------------------------------------------
(* Properties of execute *)

\* the pre-pass is over: process_node has run over every root
PrePassDone ==
    \/ epc = "process" /\ er > Len(scene.objects)
    \/ epc \in {"export", "materials", "write", "finished"}

\* the registry as the later steps must leave it: its keys and their names
RegisteredNames == [p \in 1 .. Len(nodeArray) |-> <<nodeArray[p].key, nodeArray[p].value.structName>>]

NamesInRegistrationOrder ==
    \A p \in 1 .. Len(nodeArray) : nodeArray[p].value.structName = "node" \o ToString(p)

\* C15: after the pre-pass every registered object or bone is named "node<k>",
\* distinct entries have distinct k, the k are 1..n in the order of
\* registration, and no later step changes a structName or adds an entry.
NodeIdentifiersUnique ==
    /\ [](PrePassDone => NamesInRegistrationOrder)
    /\ [][PrePassDone => RegisteredNames' = RegisteredNames]_vars


\* the document is whole: the metrics, what export_node writes for every
\* root object, then what ExportObjects and export_materials write
WholeDocument(d) ==
    LET roots == SelectSeq([i \in 1 .. Len(scene.objects) |-> i],
                           LAMBDA i : i \in Roots(scene))
        nodes == <<Part("metrics", "")>> \o ExportNodes(scene, roots, nodeArray)
        objects == nodes \o ExportObjects(scene, nodeArray, nodes)
    IN  d = objects \o export_materials(scene, nodeArray, objects)

\* C16: the output file is opened and written once, by write_to_file as the
\* last step, with the whole document built in memory; when an earlier step
\* raises the file is never opened and nothing of the document is on disk.
OutputAllOrNothing ==
    /\ [](opened <= 1)
    /\ [](epc = "finished" => opened = 1 /\ result = "FINISHED")
    /\ [](opened = 1 => epc = "finished" /\ disk = buffer /\ WholeDocument(disk))
    /\ [](opened = 0 => disk = <<>>)
    /\ [](epc = "raised" => opened = 0)
    /\ [][opened' # opened => epc = "write" /\ epc' = "finished"]_vars

OutputAllOrNothingWitness ==
    /\ epc = "finished"
    /\ opened = 1
    /\ Len(nodeArray) >= 3
    /\ \E q \in 1 .. Len(disk) : disk[q].kind = "GeometryObject"

\* required input is missing: no root object, or a mesh without polygons
MissingRequiredInput ==
    \/ Roots(scene) = {}
    \/ \E i \in 1 .. Len(scene.objects) :
          scene.objects[i].type = "MESH" /\ scene.objects[i].polygons = 0

\* C17: on a scene with no root object, or with a mesh object of zero
\* polygons, execute reports a failure instead of returning FINISHED, before
\* any byte is written to the output file.
MissingInputIsFatal ==
    MissingRequiredInput => /\ result # "FINISHED"
                            /\ epc # "finished"
                            /\ opened = 0
                            /\ disk = <<>>


-----------------------------------------------------------------------------
(* Properties of the sampled animation operations *)

\* C21: each of the three sampled animation operations, on every path through
\* it that returns (animation written or skipped, the range of one frame
\* included), leaves scene.frame_current and scene.frame_subframe as they were
\* at its entry; after any sequence of them the frame is the one before the
\* exports.
FrameRestored ==
    /\ [](bpc = "ready" => <<frame_current, frame_subframe>> = originalFrame)
    /\ [][bpc = "restore" /\ bpc' = "ready" =>
             <<frame_current', frame_subframe'>> = entryFrame]_vars

\* C21 witness: a second operation has returned after the scene was moved to
\* another frame, the scene having stood at a subframe
FrameRestoredWitness ==
    /\ bpc = "ready"
    /\ bcount = 2
    /\ baked.value # <<>>
    /\ frame_end # frame_current
    /\ frame_subframe = 500

\* C26: a sampled track written over frame_start <= frame_end has the Time
\* keys (f - frame_start) * frameTime for f = frame_start .. frame_end and as
\* many Value keys, the i-th being the sample at frame frame_start + i.
SampledTimeKeys ==
    (bpc = "restore" /\ baked.value # <<>>)
        => /\ baked.time = [i \in 1 .. (frame_end - frame_start + 1) |-> (i - 1) * frameTime]
           /\ baked.value = [i \in 1 .. (frame_end - frame_start + 1) |->
                                Sample(bake, frame_start + i - 1)]


-----------------------------------------------------------------------------
(* Properties of deindex_mesh *)

\* C23: with vertex color export on and at least one color layer, every one
\* of the three records of every triangle has its r, g and b taken from the
\* first color layer's sample for that corner; with the flag off or no color
\* layer every record keeps the color (1, 1, 1).
ColorsDeindexed ==
    dpc = "done" =>
        \A t \in 1 .. Len(mesh.loop_triangles) : \A c \in 1 .. 3 :
            colorArray[3 * (t - 1) + c] =
                IF Len(mesh.vertex_colors) > 0 /\ shouldExportVertexColor
                THEN SubSeq(mesh.vertex_colors[1][mesh.loop_triangles[t][c] + 1], 1, 3)
                ELSE DefaultColor


-----------------------------------------------------------------------------
(* Properties of the bucket count *)

RECURSIVE IsPowerOfTwo(_)
IsPowerOfTwo(n) == n = 1 \/ (n > 1 /\ n % 2 = 0 /\ IsPowerOfTwo(n \div 2))

\* max(1, floor(N / 8))
BucketLimit == IF vertexCount \div 8 > 1 THEN vertexCount \div 8 ELSE 1

\* C24: for every length N >= 0 the bit-clearing loop terminates (each of its
\* iterations lowers bucketCount and keeps it above 0) and bucketCount is the
\* largest power of two <= max(1, floor(N / 8)); the vertex is routed to
\* bucket hash & (bucketCount - 1), a valid index into the bucket table, also
\* for a negative hash.
BucketCountRounded ==
    /\ [](kpc \in {"table", "routed", "empty"} =>
             /\ IsPowerOfTwo(roundCount)
             /\ roundCount <= BucketLimit
             /\ 2 * roundCount > BucketLimit
             /\ vertexCount < 16 => roundCount = 1)
    /\ [](kpc = "routed" => /\ routed \in 0 .. (roundCount - 1)
                            /\ (vertexHash - routed) % roundCount = 0)
    /\ [][kpc = "round" /\ kpc' = "round" => roundCount' < roundCount /\ roundCount' >= 1]_vars

\* C24 witness: a vertex with a negative hash routed to a bucket other than 0
\* of a table of four buckets, whose count was rounded down from 5
BucketCountRoundedWitness ==
    /\ kpc = "routed"
    /\ vertexCount \div 8 = 5
    /\ roundCount = 4
    /\ vertexHash < 0
    /\ routed # 0


\* the node blocks written for an entry of the registry
NodeBlocksOf(key) == { q \in 1 .. Len(buffer) : buffer[q].kind = "node" /\ buffer[q].key = key }

\* C25: once the export_node/export_bone traversal is over, each object or
\* bone the pre-pass entered in the node registry has been written as
\* exactly one node block, never none and never two.
RegisteredEmittedOnce ==
    epc \in {"materials", "write", "finished"} =>
        \A p \in 1 .. Len(nodeArray) : Cardinality(NodeBlocksOf(nodeArray[p].key)) = 1


RECURSIVE Concatenation(_)
\* d1 ... dn
Concatenation(ds) == IF ds = <<>> THEN <<>> ELSE Head(ds) \o Concatenation(Tail(ds))

\* C28: for WriteBuffer and for Buffer, after write(d1), ..., write(dn) the
\* file write_to_file wrote holds exactly the concatenation d1 ... dn.
FlushedInFull == fpc = "flushed" => fileData = Concatenation(writes)


\* the blocks of the document that carry a $name
NamedBlocks ==
    { q \in 1 .. Len(buffer) :
        buffer[q].kind \in {"node", "GeometryObject", "LightObject", "CameraObject", "Material"} }

\* C29: no two distinct blocks of a document (node, GeometryObject,
\* LightObject, CameraObject and Material blocks) carry the same name.
BlockNamesUnique ==
    epc \in {"write", "finished"} =>
        \A q, r \in NamedBlocks : q # r => buffer[q].name # buffer[r].name


\* every Track of a list of structures names a structure written before it
TargetsWritten(d) ==
    \A q \in 1 .. Len(d) :
        d[q].block = "Track" =>
            \E r \in 1 .. (q - 1) : d[r].block # "Track" /\ d[r].name = d[q].target

IndentBalanced ==
    /\ [](indentLevel >= 0)
    /\ [](/\ ipc = "run"
          /\ callStack # <<>>
          /\ Top.at <= Len(Top.statements)
          /\ Current.t = "write"
          => indentLevel + Current.extra >= 0)
    /\ [](/\ callStack # <<>>
          /\ Top.at > Len(Top.statements)
          => indentLevel = Top.entry)
    /\ [](ipc = "flushed" => indentLevel = 0)

IndentBalancedWitness ==
    /\ ipc = "flushed"
    /\ deepest >= 5

=============================================================================
